---- MODULE Spec2Model ----
(***************************************************************************)
(* Model of the multimodal fusion pipeline of Maitri                       *)
(* (backend/parallel_pipeline.py) and of the web service that dispatches   *)
(* analysis runs to it (backend/main.py).                                  *)
(*                                                                         *)
(* Spec      the orchestration: concurrent runs of analyze_video, each     *)
(*           with its two worker processes, its result queue and its       *)
(*           temporary audio file.                                         *)
(* TextSpec  the data path of one run: TextAnalyzer.analyze (privacy gate, *)
(*           remove_pii, secondary LLM analysis) and _get_llm_assessment   *)
(*           (prompt construction, final LLM call, fallback).              *)
(* ScanSpec  the video scan of backend/emotion_detector.py, run for every  *)
(*           frame_skip on the same video.                                 *)
(* ScoreSpec _calculate_interval_scores on one interval.                   *)
(* ChunkSpec the aggregation of backend/text_chunking_analyzer.py.         *)
(* FuseSpec  two runs of analyze_video on the same worker results.         *)
(* SummarySpec  the summary of audio/depression_pipeline_audio.py.         *)
(* WordsSpec the chunking of backend/text_chunking_analyzer.py.            *)
(* JournalSpec  the journal of one user: analyze_text_journal and          *)
(*           backend/services/journal_service.py.                          *)
(* StatusSpec   the status files written by upload_video and analyze_video.*)
(***************************************************************************)
EXTENDS Integers, Sequences, FiniteSets, TLC

(***************************************************************************)
(* Bounds of the model.                                                    *)
(***************************************************************************)
\* number of server processes (distinct os.getpid() values) a run can be in
NumPids == 2
\* most characters put around the core of a transcript (before plus after)
MaxPad == 1

\* the analysis runs that may be in progress at the same time
Runs == {1, 2}

VARIABLES
    \* ---- orchestration (Spec) ----
    pidOf,        \* run -> pid of the server process whose executor thread runs it
    cleanup,      \* run -> the cleanup argument of analyze_video
    temp_audio,   \* run -> the local temp_audio (a path), <<>> before the call
    opc,          \* run -> position of analyze_video
    vpc,          \* run -> position of process_video_emotions (p1)
    apc,          \* run -> position of process_audio_text (p2)
    result_queue, \* run -> the run's multiprocessing Queue (sequence of <<tag, data>>)
    results,      \* run -> the dict results: tag -> data, "absent" when no such key
    gets,         \* run -> the tags result_queue.get() returned, in order
    pending,      \* run -> what the try block ended with (a return or a raise)
    outcome,      \* run -> how the call completed, "none" while in progress
    llmCalls,     \* run -> number of calls of _get_llm_assessment
    extracted,    \* run -> ffmpeg wrote the run's audio at least once (history)
    files,        \* path -> 0 when absent, else the run whose audio the file holds
    work,         \* run -> the expensive work the run's workers have started (history)
    precondition, \* run -> the precondition failures raised, each with the work
                  \*        that had been started when it was raised (history)
    raised        \* run -> "request" when a request of the audio/text worker to a
                  \*        provider failed (the transcription request, or the
                  \*        secondary LLM analysis), else "none" (history)

pvars == <<pidOf, cleanup, temp_audio, opc, vpc, apc, result_queue, results,
           gets, pending, outcome, llmCalls, extracted, files, work, precondition,
           raised>>

VARIABLES
    \* ---- data path of a run (TextSpec); copy 2 is a second run that differs
    \* from copy 1 in its transcript only ----
    tpc,                 \* "off", "start", "analyzed", "failed", "assessed"
    text,                \* copy -> transcript['text'] given to TextAnalyzer.analyze
    privacy_mode,        \* the PrivacyMode of the run
    emotion_out,         \* what self.emotion_classifier(text)[0] returns
    depression_out,      \* what self.depression_classifier(text)[0] returns
    video_emotion,       \* the video worker's result
    audio_emotion,       \* the audio classifier's result
    set_order,           \* iteration order of set(video_emotions) in this interpreter
    ents,                \* copy -> doc.ents the NER model returned for the text
    text_analysis,       \* copy -> first component of analyze's return value
    text_for_multimodal, \* copy -> second component (the outbound text)
    detailed_calls,      \* copy -> arguments analyze_detailed_llm was called with
    prompt,              \* copy -> user prompt _get_llm_assessment sent
    llm_outcome,         \* what the final LLM call did
    llm_assessment       \* copy -> what _get_llm_assessment returned

tvars == <<tpc, text, privacy_mode, emotion_out, depression_out, video_emotion,
           audio_emotion, set_order, ents, text_analysis, text_for_multimodal,
           detailed_calls, prompt, llm_outcome, llm_assessment>>

VARIABLES
    \* ---- the video scan, EmotionDetector.analyze_video_by_intervals_optimized
    \* (ScanSpec): one video scanned with every frame_skip of Skips, the scans
    \* reading the frames together ----
    scan_pc,              \* "off", "reading", "returned"
    total_frames,         \* int(cap.get(cv2.CAP_PROP_FRAME_COUNT))
    decodable,            \* number of frames cap.read() delivers before ret is False
    frames_per_interval,  \* int(fps * interval_seconds)
    frame_count,          \* frames read so far
    interval_frame_count, \* frame_skip -> frames read since the last interval closed
    current_interval,     \* frame_skip -> the interval being filled
    intervals_data,       \* frame_skip -> the interval records emitted
    faces                 \* frame_skip -> per interval, the sampled frames on which a
                          \*               face was detected (history; last = open one)

svars == <<scan_pc, total_frames, decodable, frames_per_interval, frame_count,
           interval_frame_count, current_interval, intervals_data, faces>>

VARIABLES
    \* ---- one call of EmotionDetector._calculate_interval_scores (ScoreSpec) ----
    interval_data,        \* the argument
    interval_scores       \* the record returned

cvars == <<interval_data, interval_scores>>

VARIABLES
    \* ---- one call of ChunkedTextAnalyzer.analyze_depression_chunked on a
    \* text that needs chunking (ChunkSpec) ----
    chunk_lengths,        \* [len(chunk) for chunk in chunks]
    chunk_results,        \* the classifier's distribution for each chunk
    depression_result     \* what the call returned or raised

dvars == <<chunk_lengths, chunk_results, depression_result>>

VARIABLES
    \* ---- two runs of analyze_video on the same input, from the collection of
    \* the worker results to the returned record (FuseSpec) ----
    fuse_pc,              \* "off", "collect", "returned", "saved"
    worker_results,       \* tag -> what the (mocked) worker puts on the queue
    llm_reply,            \* what the (mocked) final LLM call does
    arrival,              \* run -> the tags in the order result_queue.get() returns them
    hash_order,           \* run -> iteration order of a set of these strings in the
                          \*        interpreter process of the run (str hash seed)
    returned,             \* run -> llm_final_assessment and summary of the result
    journal_entry         \* run -> the video journal entry persisted for the result

fvars == <<fuse_pc, worker_results, llm_reply, arrival, hash_order, returned,
           journal_entry>>

VARIABLES
    \* ---- the summary of the simplified pipeline (SummarySpec) ----
    risk_pc,              \* "off", "analysed", "summarised"
    risk_inputs,          \* depression, emotion and audio_emotion records
    risk_summary          \* what _generate_summary returned

rvars == <<risk_pc, risk_inputs, risk_summary>>

VARIABLES
    \* ---- one call of chunk_text_by_sentences (WordsSpec) ----
    chunk_input,          \* the text, a sequence of characters
    max_tokens,           \* the token budget of a chunk
    chunk_pc,             \* "called" until chunk_text_by_sentences has returned
    chunks                \* the returned list of chunks

wvars == <<chunk_input, max_tokens, chunks, chunk_pc>>

VARIABLES
    \* ---- the journal of one user (JournalSpec) ----
    today,                \* date.today(), counted in days
    journals,             \* the user's documents of the journals collection
    summaries,            \* the user's documents of daily_summaries
    streaks,              \* the user's documents of user_streaks
    req,                  \* request -> position and locals of analyze_text_journal
    requested,            \* number of requests received so far
    streak_dates,         \* the entry_date of every update_user_streak call, in order
    overlapped            \* TRUE once two requests have been in progress together

jvars == <<today, journals, summaries, streaks, req, requested, streak_dates,
           overlapped>>

VARIABLES
    \* ---- the status files of upload tasks (StatusSpec) ----
    task_pc,              \* task -> position of upload_video
    status_file,          \* task -> the record in <task_id>_status.json, <<>> if none
    status_response       \* task -> the last answer of GET /api/status/<task_id>

uvars == <<task_pc, status_file, status_response>>

vars == <<pvars, tvars, svars, cvars, dvars, fvars, rvars, wvars, jvars, uvars>>

\* the variables of every specification but `spec` rest at fixed values: that
\* part of the program is not called
IdleExcept(spec) ==
    /\ spec # "Spec" =>
           /\ pidOf = <<>> /\ cleanup = <<>> /\ temp_audio = <<>>
           /\ opc = <<>> /\ vpc = <<>> /\ apc = <<>> /\ result_queue = <<>>
           /\ results = <<>> /\ gets = <<>> /\ pending = <<>>
           /\ outcome = <<>> /\ llmCalls = <<>> /\ extracted = <<>>
           /\ files = <<>> /\ work = <<>> /\ precondition = <<>>
           /\ raised = <<>>
    /\ spec # "TextSpec" =>
           /\ tpc = "off" /\ text = <<>> /\ privacy_mode = <<>>
           /\ emotion_out = <<>> /\ depression_out = <<>>
           /\ video_emotion = <<>> /\ audio_emotion = <<>>
           /\ set_order = <<>> /\ ents = <<>> /\ text_analysis = <<>>
           /\ text_for_multimodal = <<>> /\ detailed_calls = <<>>
           /\ prompt = <<>> /\ llm_outcome = <<>> /\ llm_assessment = <<>>
    /\ spec # "ScanSpec" =>
           /\ scan_pc = "off" /\ total_frames = <<>> /\ decodable = <<>>
           /\ frames_per_interval = <<>> /\ frame_count = <<>>
           /\ interval_frame_count = <<>> /\ current_interval = <<>>
           /\ intervals_data = <<>> /\ faces = <<>>
    /\ spec # "ScoreSpec" =>
           /\ interval_data = <<>> /\ interval_scores = <<>>
    /\ spec # "ChunkSpec" =>
           /\ chunk_lengths = <<>> /\ chunk_results = <<>>
           /\ depression_result = <<>>
    /\ spec # "FuseSpec" =>
           /\ fuse_pc = "off" /\ worker_results = <<>> /\ llm_reply = <<>>
           /\ arrival = <<>> /\ hash_order = <<>> /\ returned = <<>>
           /\ journal_entry = <<>>
    /\ spec # "SummarySpec" =>
           /\ risk_pc = "off" /\ risk_inputs = <<>> /\ risk_summary = <<>>
    /\ spec # "WordsSpec" =>
           /\ chunk_input = <<>> /\ max_tokens = 0 /\ chunks = <<>>
           /\ chunk_pc = "off"
    /\ spec # "JournalSpec" =>
           /\ today = 0 /\ journals = <<>> /\ summaries = <<>> /\ streaks = <<>>
           /\ req = <<>> /\ requested = 0 /\ streak_dates = <<>>
           /\ overlapped = FALSE
    /\ spec # "StatusSpec" =>
           /\ task_pc = <<>> /\ status_file = <<>> /\ status_response = <<>>

(***************************************************************************)
(* Texts.  A text is a sequence of characters; one character stands for    *)
(* each class the regular expressions of remove_pii tell apart: "5" a      *)
(* digit, "a" a letter, "-" and "." the separators, "@", " " a blank.      *)
(* The upper-case letters and brackets occur in the replacement tokens.    *)
(***************************************************************************)
Digit == {"5"}
Letter == {"a", "A", "C", "D", "E", "H", "I", "L", "M", "N", "O", "P", "R", "T"}

\* the optional value None, kept apart from every text
None == <<"None">>

REDACTED == <<"[", "R", "E", "D", "A", "C", "T", "E", "D", "]">>
PHONE == <<"[", "P", "H", "O", "N", "E", "]">>

\* \w of Python's re on str: letters, digits (and the underscore)
IsWordChar(c) == c \in Letter \cup Digit \cup {"_"}

\* \b between s[i-1] and s[i] (1-based; i = Len(s)+1 is the end of the text)
WordBoundary(s, i) ==
    LET before == i > 1 /\ IsWordChar(s[i - 1])
        after == i <= Len(s) /\ IsWordChar(s[i])
    IN before # after

\* \d{n} at position i
DigitsAt(s, i, n) == i + n - 1 <= Len(s) /\ \A k \in i..(i + n - 1) : s[k] \in Digit

\* [-.]? at position i: the position after it
SkipSep(s, i) == IF i <= Len(s) /\ s[i] \in {"-", "."} THEN i + 1 ELSE i

\* the group lengths of \d{3}[-.]?\d{3}[-.]?\d{4}
AreaDigits == 3
PrefixDigits == 3
LineDigits == 4

\* \d{3}[-.]?\d{3}[-.]?\d{4} matched at position i: the position after the
\* match, 0 when there is none
PhoneShapeEnd(s, i) ==
    IF ~DigitsAt(s, i, AreaDigits) THEN 0
    ELSE LET j == SkipSep(s, i + AreaDigits) IN
         IF ~DigitsAt(s, j, PrefixDigits) THEN 0
         ELSE LET k == SkipSep(s, j + PrefixDigits) IN
              IF DigitsAt(s, k, LineDigits) THEN k + LineDigits ELSE 0

\* r'\b\d{3}[-.]?\d{3}[-.]?\d{4}\b' matched at position i
PhoneMatchEnd(s, i) ==
    LET e == PhoneShapeEnd(s, i) IN
    IF e # 0 /\ WordBoundary(s, i) /\ WordBoundary(s, e) THEN e ELSE 0

\* re.sub(phone pattern, '[PHONE]', s) from position pos on: leftmost
\* matches, not overlapping
RECURSIVE SubPhone(_, _)
SubPhone(s, pos) ==
    IF pos > Len(s) THEN <<>>
    ELSE LET e == PhoneMatchEnd(s, pos) IN
         IF e # 0 THEN PHONE \o SubPhone(s, e)
         ELSE <<s[pos]>> \o SubPhone(s, pos + 1)

\* the character class of the local part of the e-mail pattern
EmailLocal == Letter \cup Digit \cup {".", "_", "%", "+", "-"}
\* [A-Z|a-z]{2,}
MinTld == 2

SetMax(S) == CHOOSE x \in S : \A y \in S : y <= x

\* first position >= i whose character is not in class (Len(s)+1 when none)
RunEnd(s, i, class) ==
    LET stops == {k \in i..Len(s) : s[k] \notin class} IN
    IF stops = {} THEN Len(s) + 1 ELSE CHOOSE k \in stops : \A y \in stops : k <= y

\* [local]+@[domain]+\.[tld]{2,} matched from position i with the dot at k
\* and ending before m; at is the position of the "@"
EmailSplit(s, at, k, m) ==
    /\ k >= at + 2 /\ k <= Len(s) /\ s[k] = "."
    /\ \A x \in (at + 1)..(k - 1) : s[x] \in (Letter \cup Digit \cup {".", "-"})
    /\ m >= k + 1 + MinTld /\ m <= Len(s) + 1
    /\ \A x \in (k + 1)..(m - 1) : s[x] \in (Letter \cup {"|"})

\* the e-mail shape, without the \b anchors, matched at i and ending before m
EmailShaped(s, i, m) ==
    LET at == RunEnd(s, i, EmailLocal) IN
    /\ at > i /\ at <= Len(s) /\ s[at] = "@"
    /\ \E k \in at..Len(s) : EmailSplit(s, at, k, m)

\* r'\b[A-Za-z0-9._%+-]+@[A-Za-z0-9.-]+\.[A-Z|a-z]{2,}\b' matched at i: the
\* position after the match the backtracking engine finds first (the greedy
\* domain takes the last usable dot, the greedy TLD the longest usable run),
\* 0 when there is none
EmailMatchEnd(s, i) ==
    LET at == RunEnd(s, i, EmailLocal)
        ok(k, m) == EmailSplit(s, at, k, m) /\ WordBoundary(s, m)
        dots == {k \in at..Len(s) : \E m \in k..(Len(s) + 1) : ok(k, m)}
    IN IF ~(at > i /\ at <= Len(s) /\ s[at] = "@" /\ WordBoundary(s, i)) THEN 0
       ELSE IF dots = {} THEN 0
       ELSE LET k == SetMax(dots) IN SetMax({m \in k..(Len(s) + 1) : ok(k, m)})

RECURSIVE SubEmail(_, _)
SubEmail(s, pos) ==
    IF pos > Len(s) THEN <<>>
    ELSE LET e == EmailMatchEnd(s, pos) IN
         IF e # 0 THEN <<"[", "E", "M", "A", "I", "L", "]">> \o SubEmail(s, e)
         ELSE <<s[pos]>> \o SubEmail(s, pos + 1)

\* for ent in reversed(doc.ents): splice "[REDACTED]" over the span
\* (start_char, end_char are Python offsets: 0-based, end exclusive)
RECURSIVE RedactEnts(_, _, _)
RedactEnts(anonymized, doc_ents, n) ==
    IF n = 0 THEN anonymized
    ELSE LET ent == doc_ents[n]
             next == IF ent.label \in {"PERSON", "ORG", "GPE", "FAC", "LOC"}
                     THEN SubSeq(anonymized, 1, ent.start_char) \o REDACTED
                          \o SubSeq(anonymized, ent.end_char + 1, Len(anonymized))
                     ELSE anonymized
         IN RedactEnts(next, doc_ents, n - 1)

\* TextAnalyzer.remove_pii (and audio/text_analysis_pii_removal.remove_pii)
remove_pii(t, doc_ents) ==
    SubEmail(SubPhone(RedactEnts(t, doc_ents, Len(doc_ents)), 1), 1)

(***************************************************************************)
(* The local classifiers.  A classifier output is the list of              *)
(* {'label', 'score'} entries of the pipeline; scores are in hundredths.   *)
(***************************************************************************)
\* max(results, key=lambda x: x['score']): the first entry of maximal score
Dominant(scored) ==
    LET i == CHOOSE j \in DOMAIN scored :
                 /\ \A k \in DOMAIN scored : scored[k].score <= scored[j].score
                 /\ \A k \in 1..(j - 1) : scored[k].score < scored[j].score
    IN scored[i]

AllScores(scored) == {<<scored[i].label, scored[i].score>> : i \in DOMAIN scored}

\* TextAnalyzer.analyze_emotion_local
analyze_emotion_local(scored) ==
    [dominant_emotion |-> Dominant(scored).label,
     confidence |-> Dominant(scored).score,
     all_emotions |-> AllScores(scored)]

\* severity_map.get(label, 0)
SeverityMap(label) ==
    CASE label = "not depression" -> 0
      [] label = "moderate" -> 5
      [] label = "severe" -> 9
      [] OTHER -> 0

\* TextAnalyzer.analyze_depression_local
analyze_depression_local(scored) ==
    [depression_level |-> Dominant(scored).label,
     confidence |-> Dominant(scored).score,
     severity |-> SeverityMap(Dominant(scored).label),
     all_scores |-> AllScores(scored)]

(***************************************************************************)
(* TextAnalyzer.analyze(text, privacy_mode).  The environment supplies the *)
(* classifier outputs, the entities the NER model finds and what the       *)
(* secondary LLM does: reply is the parsed JSON, or DetailedRaises when    *)
(* the call or json.loads fails.  The value has the returned pair, the arguments    *)
(* analyze_detailed_llm was called with, and whether analyze raised.       *)
(***************************************************************************)
\* analyze_detailed_llm raising (the client call or json.loads)
DetailedRaises == <<"raises">>

AnalyzeLeaky(t, mode, emo, dep, doc_ents, reply) ==
    LET anonymized == remove_pii(t, doc_ents) IN
    [text_analysis |-> [emotion |-> analyze_emotion_local(emo),
                        depression |-> analyze_depression_local(dep),
                        llm_analysis |-> None,
                        anonymized_text |-> anonymized],
     text_for_multimodal |-> anonymized,
     detailed_calls |-> <<>>,
     raised |-> FALSE]

AnalyzeRaw(t, mode, emo, dep, doc_ents, reply) ==
    IF mode = "full_privacy"
    THEN [text_analysis |-> [emotion |-> analyze_emotion_local(emo),
                             depression |-> analyze_depression_local(dep),
                             llm_analysis |-> None,
                             anonymized_text |-> None],
          text_for_multimodal |-> None,
          detailed_calls |-> <<>>,
          raised |-> FALSE]
    ELSE LET anonymized == remove_pii(t, doc_ents) IN
         [text_analysis |-> [emotion |-> analyze_emotion_local(emo),
                             depression |-> analyze_depression_local(dep),
                             llm_analysis |-> IF reply = DetailedRaises THEN None ELSE reply,
                             anonymized_text |-> IF reply = DetailedRaises THEN None
                                                 ELSE anonymized],
          text_for_multimodal |-> IF reply = DetailedRaises THEN None ELSE anonymized,
          detailed_calls |-> <<t>>,
          raised |-> reply = DetailedRaises]

Analyze(t, mode, emo, dep, doc_ents, reply) ==
    IF mode = "full_privacy"
    THEN [text_analysis |-> [emotion |-> analyze_emotion_local(emo),
                             depression |-> analyze_depression_local(dep),
                             llm_analysis |-> None,
                             anonymized_text |-> None],
          text_for_multimodal |-> None,
          detailed_calls |-> <<>>,
          raised |-> FALSE]
    ELSE LET anonymized == remove_pii(t, doc_ents) IN
         [text_analysis |-> [emotion |-> analyze_emotion_local(emo),
                             depression |-> analyze_depression_local(dep),
                             llm_analysis |-> IF reply = DetailedRaises THEN None ELSE reply,
                             anonymized_text |-> IF reply = DetailedRaises THEN None
                                                 ELSE anonymized],
          text_for_multimodal |-> IF reply = DetailedRaises THEN None ELSE anonymized,
          detailed_calls |-> <<anonymized>>,
          raised |-> reply = DetailedRaises]

(***************************************************************************)
(* _get_llm_assessment: the prompt and the final LLM call.                 *)
(***************************************************************************)
\* video_emotions.count(label)
CountOf(video_emotions, label) ==
    Cardinality({i \in DOMAIN video_emotions : video_emotions[i] = label})

\* max(set(video_emotions), key=video_emotions.count) if video_emotions else
\* "neutral": the first label of maximal count in the iteration order of the set
DominantVideoEmotion(video_emotions, order) ==
    IF video_emotions = <<>> THEN "neutral"
    ELSE LET present == {i \in DOMAIN order : CountOf(video_emotions, order[i]) > 0}
             i == CHOOSE j \in present :
                      /\ \A k \in present :
                             CountOf(video_emotions, order[k]) <= CountOf(video_emotions, order[j])
                      /\ \A k \in present :
                             k < j => CountOf(video_emotions, order[k])
                                         < CountOf(video_emotions, order[j])
         IN order[i]

\* lines 429-440: emotion -> count / total, as the pairs <<emotion, count, total>>
VideoEmotionDistribution(video_emotions) ==
    {<<video_emotions[i], CountOf(video_emotions, video_emotions[i]), Len(video_emotions)>> :
         i \in DOMAIN video_emotions}

\* lines 443-471: the text section of the prompt
TextInfoAlwaysContent(ta, tfm, mode) ==
    [header |-> "TEXT ANALYSIS (Full Classifier Distributions + Content)",
     transcript |-> tfm,
     emotion |-> ta.emotion,
     depression |-> ta.depression,
     llm_analysis |-> ta.llm_analysis]

TextInfo(ta, tfm, mode) ==
    IF mode = "full_privacy"
    THEN [header |-> "TEXT ANALYSIS (Full Classifier Distributions)",
          emotion |-> ta.emotion,
          depression |-> ta.depression]
    ELSE [header |-> "TEXT ANALYSIS (Full Classifier Distributions + Content)",
          transcript |-> tfm,
          emotion |-> ta.emotion,
          depression |-> ta.depression,
          llm_analysis |-> ta.llm_analysis]

\* lines 473-507: the prompt, as the values its f-string interpolates
BuildPrompt(video, audio, ta, tfm, mode, order) ==
    [total_intervals |-> Len(video.intervals),
     dominant_video_emotion |-> DominantVideoEmotion(video.intervals, order),
     video_emotion_distribution |-> VideoEmotionDistribution(video.intervals),
     video_summary |-> video.summary,
     audio_all_emotions |-> audio.all_emotions,
     audio_emotion |-> audio.emotion,
     audio_confidence |-> audio.confidence,
     text_info |-> TextInfo(ta, tfm, mode)]

\* what the final LLM call can do: a full JSON object, a JSON object without
\* a key _generate_summary reads, a JSON object without another key, a reply
\* that is not JSON, or an exception of the client
LlmOutcomes == {"full", "missing_summary_key", "missing_other_key", "not_json", "raises"}

\* a JSON object with the eight keys the prompt asks for
FullReply ==
    [overall_mental_health_score |-> 72,
     risk_level |-> "low",
     confidence |-> 80,
     key_indicators |-> <<"stable mood">>,
     recommendations |-> <<"keep journaling">>,
     areas_of_concern |-> <<>>,
     positive_indicators |-> <<"positive affect">>,
     distribution_insights |-> "consistent across modalities"]

Without(rec, key) == [k \in DOMAIN rec \ {key} |-> rec[k]]

\* json.loads(response.choices[0].message.content) for each kind of reply
ParsedReply(llm) ==
    CASE llm = "full" -> FullReply
      [] llm = "missing_summary_key" -> Without(FullReply, "risk_level")
      [] llm = "missing_other_key" -> Without(FullReply, "recommendations")

\* lines 523-532: the fallback dict (confidence 0.5 in hundredths)
Fallback ==
    [overall_mental_health_score |-> 50,
     risk_level |-> "moderate",
     confidence |-> 50,
     key_indicators |-> <<"LLM unavailable">>,
     recommendations |-> <<"Consult healthcare professional">>,
     areas_of_concern |-> <<"Unable to complete full analysis">>,
     positive_indicators |-> <<>>,
     distribution_insights |-> "Full distribution analysis unavailable due to LLM error"]

\* lines 509-532: try: return json.loads(reply)  except Exception: fallback
AssessmentOfOtherFallback(llm) ==
    IF llm \in {"not_json", "raises"}
    THEN [Fallback EXCEPT !.overall_mental_health_score = 0, !.risk_level = "unknown"]
    ELSE ParsedReply(llm)

AssessmentOf(llm) ==
    IF llm \in {"not_json", "raises"} THEN Fallback ELSE ParsedReply(llm)

\* lines 534-554: _generate_summary indexes overall_mental_health_score,
\* risk_level and confidence of the assessment
SummaryKeys == {"overall_mental_health_score", "risk_level", "confidence"}
SummaryOf(assessment) ==
    IF SummaryKeys \subseteq DOMAIN assessment THEN "result" ELSE "KeyError"

(***************************************************************************)
(* parallel_pipeline.py:338  temp_audio = f"temp_audio_{os.getpid()}.wav"  *)
(***************************************************************************)
TempAudioPath(pid) == <<"temp_audio_", pid, ".wav">>

Paths == {TempAudioPath(p) : p \in (1..NumPids)}

Tags == {"video", "audio_text"}
NoResults == [t \in Tags |-> "absent"]

PInit ==
    \* process ids are interchangeable: run 1 is in the process with pid 1
    /\ pidOf \in {f \in [Runs -> (1..NumPids)] : f[1] = 1}
    /\ cleanup \in [Runs -> BOOLEAN]
    /\ temp_audio = [r \in Runs |-> <<>>]
    /\ opc = [r \in Runs |-> "idle"]
    /\ vpc = [r \in Runs |-> "notstarted"]
    /\ apc = [r \in Runs |-> "notstarted"]
    /\ result_queue = [r \in Runs |-> <<>>]
    /\ results = [r \in Runs |-> NoResults]
    /\ gets = [r \in Runs |-> <<>>]
    /\ pending = [r \in Runs |-> "none"]
    /\ outcome = [r \in Runs |-> "none"]
    /\ llmCalls = [r \in Runs |-> 0]
    /\ extracted = [r \in Runs |-> FALSE]
    /\ files = [p \in Paths |-> 0]
    /\ work = [r \in Runs |-> {}]
    /\ precondition = [r \in Runs |-> {}]
    /\ raised = [r \in Runs |-> "none"]
    /\ IdleExcept("Spec")

(***************************************************************************)
(* What the workers raise and what they have started.  The preconditions   *)
(* of a run are the transcoder binary (AudioExtractor.extract, line 62),   *)
(* the transcription credential (Transcriber.__init__, lines 78-80) and a  *)
(* readable video (emotion_detector.py, lines 105-108).  The expensive     *)
(* work recorded is the work a worker does before the last of its checks:  *)
(* loading the video models, loading the text models, extracting audio.    *)
(***************************************************************************)

\* a worker of run r starts a piece of expensive work
StartWork(r, item) == work' = [work EXCEPT ![r] = @ \cup {item}]

\* a worker of run r raises because precondition what does not hold
RaisePrecondition(r, what) ==
    precondition' = [precondition EXCEPT ![r] = @ \cup {[what |-> what, started |-> work[r]]}]

(***************************************************************************)
(* Worker 1, process_video_emotions: whatever is raised inside its try     *)
(* block is put as one ("video", {"error": ...}) message.                  *)
(***************************************************************************)
\* the except clause of process_video_emotions
VideoFail(r) ==
    /\ vpc' = [vpc EXCEPT ![r] = "done"]
    /\ result_queue' = [result_queue EXCEPT ![r] = Append(@, <<"video", "error">>)]

\* line 261: detector = EmotionDetector() loads the classification model
\* and the MTCNN face detector; then the first lines of the scan
\* (emotion_detector.py 105-108): cap = cv2.VideoCapture(...); if not
\* cap.isOpened(): raise ValueError
process_video_emotions_open(r) ==
    /\ vpc[r] = "running"
    /\ StartWork(r, "video_models")
    /\ \/ /\ vpc' = [vpc EXCEPT ![r] = "scan"]
          /\ UNCHANGED <<result_queue, precondition>>
       \/ /\ VideoFail(r)
          /\ UNCHANGED precondition
       \/ /\ VideoFail(r)
          /\ precondition' = [precondition EXCEPT ![r] =
                 @ \cup {[what |-> "video", started |-> work'[r]]}]
    /\ UNCHANGED <<pidOf, cleanup, temp_audio, opc, apc, results, gets, pending,
                   outcome, llmCalls, extracted, files>>
    /\ UNCHANGED raised
    /\ UNCHANGED <<tvars, svars, cvars, dvars, fvars, rvars, wvars, jvars, uvars>>

\* the scan of analyze_video_by_intervals_optimized, then the put of the
\* ("video", result) message; a failure goes to the except clause
process_video_emotions_scan(r) ==
    /\ vpc[r] = "scan"
    /\ \E data \in {"ok", "error"} :
         result_queue' = [result_queue EXCEPT ![r] = Append(@, <<"video", data>>)]
    /\ vpc' = [vpc EXCEPT ![r] = "done"]
    /\ UNCHANGED <<pidOf, cleanup, temp_audio, opc, apc, results, gets, pending,
                   outcome, llmCalls, extracted, files, work, precondition>>
    /\ UNCHANGED raised
    /\ UNCHANGED <<tvars, svars, cvars, dvars, fvars, rvars, wvars, jvars, uvars>>

(***************************************************************************)
(* Worker 2, process_audio_text.  Lines 277-279 run before the try block:  *)
(* an exception there ends the process with nothing put on the queue.      *)
(***************************************************************************)
\* the except clause of process_audio_text: put ("audio_text", {"error": ...})
AudioFailKeepsGoing(r) ==
    /\ apc' = [apc EXCEPT ![r] = "text"]
    /\ result_queue' = [result_queue EXCEPT ![r] = Append(@, <<"audio_text", "error">>)]

AudioFail(r) ==
    /\ apc' = [apc EXCEPT ![r] = "done"]
    /\ result_queue' = [result_queue EXCEPT ![r] = Append(@, <<"audio_text", "error">>)]

\* Groq(...) raises before anything is loaded; TextAnalyzer() loads the
\* spaCy model and the two classifiers, and may raise while doing so
process_audio_text_setup(r) ==
    /\ apc[r] = "setup"
    /\ \/ /\ apc' = [apc EXCEPT ![r] = "extract"]
          /\ StartWork(r, "text_models")
       \/ /\ apc' = [apc EXCEPT ![r] = "crashed"]
          /\ \/ UNCHANGED work
             \/ StartWork(r, "text_models")
    /\ UNCHANGED <<pidOf, cleanup, temp_audio, opc, vpc, result_queue, results, gets,
                   pending, outcome, llmCalls, extracted, files, precondition>>
    /\ UNCHANGED raised
    /\ UNCHANGED <<tvars, svars, cvars, dvars, fvars, rvars, wvars, jvars, uvars>>

\* AudioExtractor.extract(video_path, temp_audio): ffmpeg missing from PATH,
\* ffmpeg succeeding (the file is written, -y overwrites), or ffmpeg failing
\* with or without a partial file left behind.
AudioExtractor_extract(r) ==
    /\ apc[r] = "extract"
    /\ \/ /\ AudioFail(r)
          /\ RaisePrecondition(r, "ffmpeg")
          /\ UNCHANGED <<files, extracted, work>>
       \/ /\ StartWork(r, "audio")
          /\ UNCHANGED precondition
          /\ \/ /\ AudioFail(r)
                /\ UNCHANGED <<files, extracted>>
             \/ /\ files' = [files EXCEPT ![temp_audio[r]] = r]
                /\ extracted' = [extracted EXCEPT ![r] = TRUE]
                /\ \/ /\ apc' = [apc EXCEPT ![r] = "transcribe"]
                      /\ UNCHANGED result_queue
                   \/ AudioFail(r)
    /\ UNCHANGED <<pidOf, cleanup, temp_audio, opc, vpc, results, gets, pending,
                   outcome, llmCalls>>
    /\ UNCHANGED raised
    /\ UNCHANGED <<tvars, svars, cvars, dvars, fvars, rvars, wvars, jvars, uvars>>

\* Transcriber() raises when DEEPGRAM_API_KEY is missing; transcribe(temp_audio):
\* open() raises when the file is gone, the HTTP call may fail.
Transcriber_transcribe(r) ==
    /\ apc[r] = "transcribe"
    /\ \/ /\ AudioFail(r)
          /\ RaisePrecondition(r, "DEEPGRAM_API_KEY")
          /\ UNCHANGED raised
       \/ /\ UNCHANGED precondition
          /\ \/ /\ files[temp_audio[r]] # 0
                /\ apc' = [apc EXCEPT ![r] = "audio_emotion"]
                /\ UNCHANGED <<result_queue, raised>>
             \* open(audio_path) raises when the file is gone; else the request
             \* was made and httpx.post or raise_for_status raised
             \/ /\ AudioFail(r)
                /\ raised' = [raised EXCEPT ![r] =
                                 IF files[temp_audio[r]] # 0 THEN "request" ELSE @]
    /\ UNCHANGED <<pidOf, cleanup, temp_audio, opc, vpc, results, gets, pending,
                   outcome, llmCalls, extracted, files, work>>
    /\ UNCHANGED <<tvars, svars, cvars, dvars, fvars, rvars, wvars, jvars, uvars>>

\* AudioEmotionAnalyzer() loads the wav2vec2 model; analyze(temp_audio):
\* torchaudio.load needs the file.
AudioEmotionAnalyzer_analyze(r) ==
    /\ apc[r] = "audio_emotion"
    /\ \/ /\ files[temp_audio[r]] # 0
          /\ apc' = [apc EXCEPT ![r] = "text"]
          /\ UNCHANGED result_queue
       \/ AudioFail(r)
    /\ UNCHANGED <<pidOf, cleanup, temp_audio, opc, vpc, results, gets, pending,
                   outcome, llmCalls, extracted, files, work, precondition>>
    /\ UNCHANGED raised
    /\ UNCHANGED <<tvars, svars, cvars, dvars, fvars, rvars, wvars, jvars, uvars>>

\* TextAnalyzer().analyze(transcript['text'], privacy_mode), then the put of
\* the ("audio_text", {...}) result; a failure goes to the except clause.
process_audio_text_analyze(r) ==
    /\ apc[r] = "text"
    /\ \/ /\ apc' = [apc EXCEPT ![r] = "done"]
          /\ result_queue' = [result_queue EXCEPT ![r] = Append(@, <<"audio_text", "ok">>)]
          /\ UNCHANGED raised
       \* a local classifier raises, or (ANONYMIZED) analyze_detailed_llm does:
       \* the request fails or json.loads rejects the reply
       \/ /\ AudioFail(r)
          /\ \E cause \in {"none", "request"} :
                raised' = [raised EXCEPT ![r] = cause]
    /\ UNCHANGED <<pidOf, cleanup, temp_audio, opc, vpc, results, gets, pending,
                   outcome, llmCalls, extracted, files, work, precondition>>
    /\ UNCHANGED <<tvars, svars, cvars, dvars, fvars, rvars, wvars, jvars, uvars>>

(***************************************************************************)
(* analyze_video, the orchestrator of one run.                             *)
(***************************************************************************)
\* lines 338-349: name the temporary file, create the queue, start p1 and p2
analyze_video_start(r) ==
    /\ opc[r] = "idle"
    /\ temp_audio' = [temp_audio EXCEPT ![r] = TempAudioPath(pidOf[r])]
    /\ result_queue' = [result_queue EXCEPT ![r] = <<>>]
    /\ vpc' = [vpc EXCEPT ![r] = "running"]
    /\ apc' = [apc EXCEPT ![r] = "setup"]
    /\ opc' = [opc EXCEPT ![r] = "collect"]
    /\ UNCHANGED <<pidOf, cleanup, results, gets, pending, outcome, llmCalls,
                   extracted, files,
                   work, precondition>>
    /\ UNCHANGED raised
    /\ UNCHANGED <<tvars, svars, cvars, dvars, fvars, rvars, wvars, jvars, uvars>>

\* line 352: for _ in range(2)
ResultsToCollectOne == 2 - 1
ResultsToCollect == 2

\* lines 353-354: one blocking result_queue.get(), results[result_type] = data
analyze_video_get(r) ==
    /\ opc[r] = "collect"
    /\ Len(gets[r]) < ResultsToCollect
    /\ result_queue[r] # <<>>
    /\ LET msg == Head(result_queue[r]) IN
         /\ results' = [results EXCEPT ![r][msg[1]] = msg[2]]
         /\ gets' = [gets EXCEPT ![r] = Append(@, msg[1])]
    /\ result_queue' = [result_queue EXCEPT ![r] = Tail(@)]
    /\ UNCHANGED <<pidOf, cleanup, temp_audio, opc, vpc, apc, pending, outcome,
                   llmCalls, extracted, files,
                   work, precondition>>
    /\ UNCHANGED raised
    /\ UNCHANGED <<tvars, svars, cvars, dvars, fvars, rvars, wvars, jvars, uvars>>

Terminated(r) == vpc[r] = "done" /\ apc[r] \in {"done", "crashed"}

\* lines 356-371: join both processes, raise on a tagged error, read both
\* results (results["video"], results["audio_text"]: KeyError when absent)
CheckResults(res) ==
    IF res["video"] = "error" THEN "Video processing failed"
    ELSE IF res["audio_text"] = "error" THEN "Audio/text processing failed"
    ELSE IF res["video"] = "absent" \/ res["audio_text"] = "absent" THEN "KeyError"
    ELSE "proceed"

analyze_video_check(r) ==
    /\ opc[r] = "collect"
    /\ Len(gets[r]) = ResultsToCollect
    /\ Terminated(r)
    /\ LET c == CheckResults(results[r]) IN
         IF c = "proceed"
         THEN /\ opc' = [opc EXCEPT ![r] = "assess"]
              /\ UNCHANGED pending
         ELSE /\ opc' = [opc EXCEPT ![r] = "finally"]
              /\ pending' = [pending EXCEPT ![r] = c]
    /\ UNCHANGED <<pidOf, cleanup, temp_audio, vpc, apc, result_queue, results,
                   gets, outcome, llmCalls, extracted, files,
                   work, precondition>>
    /\ UNCHANGED raised
    /\ UNCHANGED <<tvars, svars, cvars, dvars, fvars, rvars, wvars, jvars, uvars>>

\* lines 373-405: _get_llm_assessment, _generate_summary, the result
analyze_video_assess(r) ==
    /\ opc[r] = "assess"
    /\ llmCalls' = [llmCalls EXCEPT ![r] = @ + 1]
    /\ \E llm \in LlmOutcomes :
         pending' = [pending EXCEPT ![r] = SummaryOf(AssessmentOf(llm))]
    /\ opc' = [opc EXCEPT ![r] = "finally"]
    /\ UNCHANGED <<pidOf, cleanup, temp_audio, vpc, apc, result_queue, results,
                   gets, outcome, extracted, files,
                   work, precondition>>
    /\ UNCHANGED raised
    /\ UNCHANGED <<tvars, svars, cvars, dvars, fvars, rvars, wvars, jvars, uvars>>

\* line 408: if cleanup and os.path.exists(temp_audio)
ShouldRemoveNever(clean, exists) == FALSE
ShouldRemove(clean, exists) == clean /\ exists

analyze_video_finally(r) ==
    /\ opc[r] = "finally"
    /\ IF ShouldRemove(cleanup[r], files[temp_audio[r]] # 0)
       THEN /\ opc' = [opc EXCEPT ![r] = "remove"]
            /\ UNCHANGED outcome
       ELSE /\ opc' = [opc EXCEPT ![r] = "done"]
            /\ outcome' = [outcome EXCEPT ![r] = pending[r]]
    /\ UNCHANGED <<pidOf, cleanup, temp_audio, vpc, apc, result_queue, results,
                   gets, pending, llmCalls, extracted, files,
                   work, precondition>>
    /\ UNCHANGED raised
    /\ UNCHANGED <<tvars, svars, cvars, dvars, fvars, rvars, wvars, jvars, uvars>>

\* line 409: os.remove(temp_audio); it raises FileNotFoundError, in place of
\* what the try block ended with, when the file went away since line 408
analyze_video_remove(r) ==
    /\ opc[r] = "remove"
    /\ IF files[temp_audio[r]] # 0
       THEN /\ files' = [files EXCEPT ![temp_audio[r]] = 0]
            /\ outcome' = [outcome EXCEPT ![r] = pending[r]]
       ELSE /\ outcome' = [outcome EXCEPT ![r] = "FileNotFoundError"]
            /\ UNCHANGED files
    /\ opc' = [opc EXCEPT ![r] = "done"]
    /\ UNCHANGED <<pidOf, cleanup, temp_audio, vpc, apc, result_queue, results,
                   gets, pending, llmCalls, extracted,
                   work, precondition>>
    /\ UNCHANGED raised
    /\ UNCHANGED <<tvars, svars, cvars, dvars, fvars, rvars, wvars, jvars, uvars>>

PNext ==
    \E r \in Runs :
        \/ analyze_video_start(r)
        \/ process_video_emotions_open(r)
        \/ process_video_emotions_scan(r)
        \/ process_audio_text_setup(r)
        \/ AudioExtractor_extract(r)
        \/ Transcriber_transcribe(r)
        \/ AudioEmotionAnalyzer_analyze(r)
        \/ process_audio_text_analyze(r)
        \/ analyze_video_get(r)
        \/ analyze_video_check(r)
        \/ analyze_video_assess(r)
        \/ analyze_video_finally(r)
        \/ analyze_video_remove(r)


(***************************************************************************)
(* The data path of one run (TextSpec): TextAnalyzer.analyze in the        *)
(* audio/text worker, then _get_llm_assessment in the orchestrator.        *)
(* The inputs are drawn in the initial state.  Copy 2 is a second run with *)
(* the same classifier outputs, video and audio results and another        *)
(* transcript; both copies take each step together.                        *)
(***************************************************************************)
Copies == {1, 2}

RECURSIVE Repeat(_, _)
Repeat(c, n) == IF n = 0 THEN <<>> ELSE <<c>> \o Repeat(c, n - 1)

\* what surrounds the core of a transcript
Pads == UNION {[1..n -> {"5", "a", " "}] : n \in 0..MaxPad}

PhoneDashed ==
    Repeat("5", AreaDigits) \o <<"-">> \o Repeat("5", PrefixDigits) \o <<"-">>
    \o Repeat("5", LineDigits)

Cores == {<<>>, <<"a", "a">>, PhoneDashed,
          Repeat("5", AreaDigits + PrefixDigits + LineDigits),
          Repeat("5", AreaDigits) \o <<".">> \o Repeat("5", PrefixDigits)
              \o Repeat("5", LineDigits),
          <<"a", "@", "a", ".", "a", "a">>}

Texts ==
    UNION {{pre \o core \o post :
                core \in Cores, post \in {x \in Pads : Len(pre) + Len(x) <= MaxPad}} :
               pre \in Pads}

\* maximal runs of letters of a text, as (start_char, end_char) Python offsets
LetterRuns(t) ==
    {span \in (0..Len(t)) \X (1..Len(t)) :
        /\ span[1] < span[2]
        /\ \A k \in (span[1] + 1)..span[2] : t[k] \in Letter
        /\ span[1] = 0 \/ t[span[1]] \notin Letter
        /\ span[2] = Len(t) \/ t[span[2] + 1] \notin Letter}

\* most entities the NER model is taken to find in one transcript
MaxEnts == 2

\* the entities the model can report for t: a maximal run of letters, labelled
EntsOf(t) ==
    {[start_char |-> span[1], end_char |-> span[2], label |-> l] :
         span \in LetterRuns(t), l \in {"PERSON", "DATE"}}

\* doc.ents: at most n entities in document order, not overlapping
RECURSIVE DocEntsUpTo(_, _)
DocEntsUpTo(t, n) ==
    IF n = 0 THEN {<<>>}
    ELSE LET shorter == DocEntsUpTo(t, n - 1) IN
         shorter \cup
         UNION {{Append(e, ent) : ent \in {x \in EntsOf(t) :
                                              e = <<>> \/ e[Len(e)].end_char <= x.start_char}} :
                    e \in {x \in shorter : Len(x) = n - 1}}

DocEnts(t) == DocEntsUpTo(t, MaxEnts)

EmotionOutputs ==
    {<<[label |-> "joy", score |-> 90], [label |-> "sadness", score |-> 10]>>,
     <<[label |-> "joy", score |-> 50], [label |-> "sadness", score |-> 50]>>}

DepressionOutputs ==
    {<<[label |-> "moderate", score |-> 10], [label |-> "not depression", score |-> 85],
       [label |-> "severe", score |-> 5]>>,
     <<[label |-> "moderate", score |-> 60], [label |-> "not depression", score |-> 30],
       [label |-> "severe", score |-> 10]>>,
     <<[label |-> "moderate", score |-> 20], [label |-> "not depression", score |-> 10],
       [label |-> "severe", score |-> 70]>>}

\* results of the video worker: the dominant emotions of the intervals and
\* the summary
VideoResults ==
    {[intervals |-> <<>>, summary |-> "none"],
     [intervals |-> <<"happy", "sad">>, summary |-> "happy"]}
SetOrders == {<<"happy", "sad">>, <<"sad", "happy">>}

AudioResults ==
    {[emotion |-> "sad", confidence |-> 70,
      all_emotions |-> {<<"neutral", 10>>, <<"happy", 10>>, <<"sad", 70>>, <<"angry", 10>>}]}

\* parsed replies of the secondary LLM analysis
DetailedReplies == {<<"sentiment", "negative">>}

NoAnalysis ==
    [emotion |-> None, depression |-> None, llm_analysis |-> None, anonymized_text |-> None]
NoPrompt == [total_intervals |-> 0]
NoAssessment == [overall_mental_health_score |-> 0]

TInit ==
    /\ tpc = "start"
    /\ \E t1 \in Texts, t2 \in {PhoneDashed} : text = <<t1, t2>>
    /\ privacy_mode \in {"full_privacy", "anonymized"}
    /\ emotion_out \in EmotionOutputs
    /\ depression_out \in DepressionOutputs
    /\ video_emotion \in VideoResults
    /\ audio_emotion \in AudioResults
    /\ set_order \in SetOrders
    /\ video_emotion.intervals = <<>> => set_order = <<"happy", "sad">>
    /\ ents = [c \in Copies |-> <<>>]
    /\ text_analysis = [c \in Copies |-> NoAnalysis]
    /\ text_for_multimodal = [c \in Copies |-> None]
    /\ detailed_calls = [c \in Copies |-> <<>>]
    /\ prompt = [c \in Copies |-> NoPrompt]
    /\ llm_outcome = "none"
    /\ llm_assessment = [c \in Copies |-> NoAssessment]
    /\ IdleExcept("TextSpec")

\* lines 296-300 of process_audio_text: text_analyzer.analyze(transcript['text'],
\* privacy_mode), for both copies
TextAnalyzer_analyze ==
    /\ tpc = "start"
    /\ \E e1 \in DocEnts(text[1]), e2 \in DocEnts(text[2]),
          reply \in DetailedReplies \cup {DetailedRaises} :
         LET e == <<e1, e2>>
             a == [c \in Copies |->
                      Analyze(text[c], privacy_mode, emotion_out, depression_out, e[c], reply)]
         IN /\ ents' = e
            /\ text_analysis' = [c \in Copies |-> a[c].text_analysis]
            /\ text_for_multimodal' = [c \in Copies |-> a[c].text_for_multimodal]
            /\ detailed_calls' = [c \in Copies |-> a[c].detailed_calls]
            /\ tpc' = IF a[1].raised THEN "failed" ELSE "analyzed"
    /\ UNCHANGED <<text, privacy_mode, emotion_out, depression_out, video_emotion,
                   audio_emotion, set_order, prompt, llm_outcome, llm_assessment>>
    /\ UNCHANGED <<pvars, svars, cvars, dvars, fvars, rvars, wvars, jvars, uvars>>

\* lines 374-380 of analyze_video: self._get_llm_assessment(...), for both copies
get_llm_assessment ==
    /\ tpc = "analyzed"
    /\ \E llm \in LlmOutcomes :
         /\ llm_outcome' = llm
         /\ llm_assessment' = [c \in Copies |-> AssessmentOf(llm)]
    /\ prompt' = [c \in Copies |->
                     BuildPrompt(video_emotion, audio_emotion, text_analysis[c],
                                 text_for_multimodal[c], privacy_mode, set_order)]
    /\ tpc' = "assessed"
    /\ UNCHANGED <<text, privacy_mode, emotion_out, depression_out, video_emotion,
                   audio_emotion, set_order, ents, text_analysis, text_for_multimodal,
                   detailed_calls>>
    /\ UNCHANGED <<pvars, svars, cvars, dvars, fvars, rvars, wvars, jvars, uvars>>

TNext == TextAnalyzer_analyze \/ get_llm_assessment

(***************************************************************************)
(* The video scan (ScanSpec): EmotionDetector.analyze_video_by_intervals_  *)
(* optimized, emotion_detector.py 86-218, from the first cap.read() on.    *)
(* Probabilities are in hundredths, emotion scores in hundredths of a      *)
(* point, the face detection rate in thousandths.                          *)
(***************************************************************************)
\* most frames of a video
MaxFrames == 5
\* largest frame_skip
MaxSkip == 3
\* largest int(fps * interval_seconds)
MaxFramesPerInterval == 3

Skips == 1..MaxSkip

\* interval_seconds, the default of analyze_video_by_intervals_optimized
interval_seconds == 5

\* self.emotion_labels, in the order of model.config.id2label
emotion_labels == <<"happy", "sad">>

\* what one sampled frame yields: no face above the MTCNN threshold, or the
\* probabilities detect_emotion returns for the largest face
NoFace == [face |-> FALSE]
Probabilities == {[happy |-> 90, sad |-> 10], [happy |-> 50, sad |-> 50]}

\* int(num / den): the quotient cut off, not rounded
RoundDown(num, den) == num \div den

\* round(num / den, n digits) given num scaled by 10^n: the nearest integer
\* to num / den.  On an exact tie Python rounds by the binary value of the
\* float; no tie occurs for the counts of this model.
RoundHalfEven(num, den) ==
    LET q == num \div den
        r == num % den
    IN IF 2 * r < den THEN q
       ELSE IF 2 * r > den THEN q + 1
       ELSE IF q % 2 = 0 THEN q ELSE q + 1

Max(a, b) == IF a >= b THEN a ELSE b

RECURSIVE SumProb(_, _, _)
\* emotion_score_accumulator[emotion] over the first n detections
SumProb(detections, emotion, n) ==
    IF n = 0 THEN 0 ELSE detections[n][emotion] + SumProb(detections, emotion, n - 1)

\* max(emotion_scores.items(), key=lambda x: x[1])[0]: the first label, in
\* the order of the dict, of maximal score
DominantLabel(scores) ==
    LET i == CHOOSE j \in DOMAIN emotion_labels :
                 /\ \A k \in DOMAIN emotion_labels :
                        scores[emotion_labels[k]] <= scores[emotion_labels[j]]
                 /\ \A k \in 1..(j - 1) :
                        scores[emotion_labels[k]] < scores[emotion_labels[j]]
    IN emotion_labels[i]

Labels == {emotion_labels[i] : i \in DOMAIN emotion_labels}

\* EmotionDetector._calculate_interval_scores, emotion_detector.py 220-266
calculate_interval_scores_unguarded(data) ==
    LET n == Len(data.detections)
        sampled == Max(data.frames_sampled, 1)
        scores == [e \in Labels |->
                      RoundHalfEven(100 * SumProb(data.detections, e, n) * data.frames_with_face,
                                    Max(n, 1) * sampled)]
    IN [interval_number |-> data.interval_number + 1,
        start_time |-> data.start_time,
        end_time |-> data.end_time,
        frames_processed |-> data.frames_processed,
        frames_sampled |-> data.frames_sampled,
        frames_with_face |-> data.frames_with_face,
        face_detection_rate |-> RoundHalfEven(1000 * data.frames_with_face, sampled),
        emotion_scores |-> scores,
        dominant_emotion |-> DominantLabel(scores),
        detections_count |-> n]

calculate_interval_scores(data) ==
    IF data.detections = <<>>
    THEN [interval_number |-> data.interval_number + 1,
          start_time |-> data.start_time,
          end_time |-> data.end_time,
          frames_processed |-> data.frames_processed,
          frames_sampled |-> data.frames_sampled,
          frames_with_face |-> 0,
          face_detection_rate |-> 0,
          emotion_scores |-> [e \in Labels |-> 0],
          dominant_emotion |-> "none",
          detections_count |-> 0]
    ELSE LET n == Len(data.detections)
             sampled == Max(data.frames_sampled, 1)
             scores == [e \in Labels |->
                           RoundHalfEven(100 * SumProb(data.detections, e, n)
                                             * data.frames_with_face,
                                         n * sampled)]
         IN [interval_number |-> data.interval_number + 1,
             start_time |-> data.start_time,
             end_time |-> data.end_time,
             frames_processed |-> data.frames_processed,
             frames_sampled |-> data.frames_sampled,
             frames_with_face |-> data.frames_with_face,
             face_detection_rate |-> RoundHalfEven(1000 * data.frames_with_face, sampled),
             emotion_scores |-> scores,
             dominant_emotion |-> DominantLabel(scores),
             detections_count |-> n]

\* lines 126-134 and 190-198: the empty interval that follows n emitted ones
NewInterval(n) ==
    [interval_number |-> n,
     start_time |-> n * interval_seconds,
     end_time |-> (n + 1) * interval_seconds,
     detections |-> <<>>,
     frames_with_face |-> 0,
     frames_processed |-> 0,
     frames_sampled |-> 0]

\* lines 147-150: the frame is not sampled
Skipped(k) == (frame_count + 1) % k # 0

\* lines 152-169: the interval after a sampled frame that yielded det
Sampled(cur, det) ==
    IF ~det.face
    THEN [cur EXCEPT !.frames_sampled = @ + 1, !.frames_processed = @ + 1]
    ELSE [cur EXCEPT !.frames_sampled = @ + 1, !.frames_processed = @ + 1,
                     !.detections = Append(@, det.probabilities),
                     !.frames_with_face = @ + 1]

\* line 172, evaluated after a sampled frame
IntervalComplete(k) ==
    \/ interval_frame_count[k] + 1 >= frames_per_interval
    \/ frame_count + 1 >= total_frames

Closes(k) == ~Skipped(k) /\ IntervalComplete(k)

ScanInit ==
    /\ scan_pc = "reading"
    /\ total_frames \in 0..MaxFrames
    /\ decodable \in 0..MaxFrames
    /\ frames_per_interval \in 1..MaxFramesPerInterval
    /\ frame_count = 0
    /\ interval_frame_count = [k \in Skips |-> 0]
    /\ current_interval = [k \in Skips |-> NewInterval(0)]
    /\ intervals_data = [k \in Skips |-> <<>>]
    /\ faces = [k \in Skips |-> <<0>>]
    /\ IdleExcept("ScanSpec")

\* lines 139-198: one iteration of the loop, for the scan with each frame_skip
cap_read ==
    /\ scan_pc = "reading"
    /\ frame_count < decodable
    /\ frame_count' = frame_count + 1
    /\ \E det \in {NoFace} \cup {[face |-> TRUE, probabilities |-> pr] : pr \in Probabilities} :
         /\ current_interval' = [k \in Skips |->
                IF Skipped(k)
                THEN [current_interval[k] EXCEPT !.frames_processed = @ + 1]
                ELSE IF IntervalComplete(k)
                THEN NewInterval(Len(intervals_data[k]) + 1)
                ELSE Sampled(current_interval[k], det)]
         /\ intervals_data' = [k \in Skips |->
                IF Closes(k)
                THEN Append(intervals_data[k],
                            calculate_interval_scores(Sampled(current_interval[k], det)))
                ELSE intervals_data[k]]
         /\ faces' = [k \in Skips |->
                LET seen == IF Skipped(k) \/ ~det.face THEN faces[k]
                            ELSE [faces[k] EXCEPT ![Len(faces[k])] = @ + 1]
                IN IF Closes(k) THEN Append(seen, 0) ELSE seen]
    /\ interval_frame_count' = [k \in Skips |->
           IF Closes(k) THEN 0 ELSE interval_frame_count[k] + 1]
    /\ UNCHANGED <<scan_pc, total_frames, decodable, frames_per_interval>>
    /\ UNCHANGED <<pvars, tvars, cvars, dvars, fvars, rvars, wvars, jvars, uvars>>

\* lines 140-142 and 200-218: ret is False, the loop is left, the capture is
\* released and the results are returned with 'intervals': intervals_data
cap_read_end ==
    /\ scan_pc = "reading"
    /\ frame_count >= decodable
    /\ scan_pc' = "returned"
    /\ UNCHANGED <<total_frames, decodable, frames_per_interval, frame_count,
                   interval_frame_count, current_interval, intervals_data, faces>>
    /\ UNCHANGED <<pvars, tvars, cvars, dvars, fvars, rvars, wvars, jvars, uvars>>

(***************************************************************************)
(* One call of _calculate_interval_scores (ScoreSpec) on the interval the  *)
(* scan hands it once frames_per_interval frames have gone by.             *)
(***************************************************************************)
\* sampled frames of a long interval (a large interval_seconds)
LongInterval == 2001
\* most sampled frames of a short interval
MaxSampled == 4

RECURSIVE FaceFrames(_)
\* the detections of n frames with a face
FaceFrames(n) ==
    IF n = 0 THEN {<<>>}
    ELSE {Append(d, pr) : d \in FaceFrames(n - 1), pr \in Probabilities}

\* the intervals line 173 passes: every sampled frame was processed, a
\* detection was appended for each frame with a face; a few sampled frames,
\* or as many as a long interval has
ScoreInputs ==
    {data \in
        {[interval_number |-> 0, start_time |-> 0, end_time |-> interval_seconds,
          detections |-> d, frames_with_face |-> Len(d),
          frames_processed |-> sampled * skip, frames_sampled |-> sampled] :
             d \in UNION {FaceFrames(n) : n \in 0..MaxSampled},
             sampled \in (0..MaxSampled) \cup {LongInterval, LongInterval + 1},
             skip \in Skips} :
        data.frames_with_face <= data.frames_sampled}

\* interval_scores before the call
NoScores == [interval_number |-> 0]

ScoreInit ==
    /\ interval_data \in ScoreInputs
    /\ interval_scores = NoScores
    /\ IdleExcept("ScoreSpec")

\* line 173: interval_scores = self._calculate_interval_scores(current_interval)
calculate_scores ==
    /\ interval_scores = NoScores
    /\ interval_scores' = calculate_interval_scores(interval_data)
    /\ UNCHANGED interval_data
    /\ UNCHANGED <<pvars, tvars, svars, dvars, fvars, rvars, wvars, jvars, uvars>>

(***************************************************************************)
(* The aggregation of analyze_depression_chunked (ChunkSpec),              *)
(* text_chunking_analyzer.py 289-342.  Scores are in hundredths; a         *)
(* weighted average is the pair <<sum of score * length, total length>>.   *)
(***************************************************************************)
\* most chunks of a text
MaxChunks == 3

\* score_labels = chunk_results[0].keys(), in the order of the classifier
score_labels == <<"moderate", "not depression", "severe">>
ScoreLabels == {score_labels[i] : i \in DOMAIN score_labels}

\* max(scores.items(), key=lambda x: x[1])[0]
DominantOf(scores) ==
    LET i == CHOOSE j \in DOMAIN score_labels :
                 /\ \A k \in DOMAIN score_labels :
                        scores[score_labels[k]] <= scores[score_labels[j]]
                 /\ \A k \in 1..(j - 1) :
                        scores[score_labels[k]] < scores[score_labels[j]]
    IN score_labels[i]

RECURSIVE WorstCase(_, _)
\* lines 294-303 over the first n chunks: max_severity and the chunk whose
\* scores max_severity_scores holds (0 while it is None)
WorstCase(results_, n) ==
    IF n = 0 THEN [max_severity |-> 0, max_severity_scores |-> 0]
    ELSE LET before == WorstCase(results_, n - 1)
             severity == SeverityMap(DominantOf(results_[n]))
         IN IF severity > before.max_severity
            THEN [max_severity |-> severity, max_severity_scores |-> n]
            ELSE before

RECURSIVE WeightedSum(_, _, _, _)
\* sum(chunk_result[label] * length ...) over the first n chunks
WeightedSum(results_, lengths, label, n) ==
    IF n = 0 THEN 0
    ELSE results_[n][label] * lengths[n] + WeightedSum(results_, lengths, label, n - 1)

RECURSIVE SumLengths(_, _)
SumLengths(lengths, n) == IF n = 0 THEN 0 ELSE lengths[n] + SumLengths(lengths, n - 1)

\* a variable before the call that assigns it
NoResult == [raised |-> "nothing yet"]

\* max_severity_scores[dominant_label] with max_severity_scores None
TypeError == [raised |-> "TypeError"]

\* lines 289-342
analyze_depression_chunked(results_, lengths) ==
    LET worst == WorstCase(results_, Len(results_))
        total_length == SumLengths(lengths, Len(lengths))
        aggregated_scores ==
            [label \in ScoreLabels |->
                <<WeightedSum(results_, lengths, label, Len(results_)), total_length>>]
        \* reverse_severity_map[max_severity]
        dominant_label ==
            CASE worst.max_severity = 0 -> "not depression"
              [] worst.max_severity = 5 -> "moderate"
              [] worst.max_severity = 9 -> "severe"
    IN IF worst.max_severity_scores = 0 THEN TypeError
       ELSE [depression_level |-> dominant_label,
             confidence |-> results_[worst.max_severity_scores][dominant_label],
             severity |-> worst.max_severity,
             all_scores |-> aggregated_scores,
             chunks_analyzed |-> Len(results_)]

ChunkInit ==
    /\ \E n \in 1..MaxChunks :
         \* distributions the classifier returns for a chunk
         /\ chunk_results \in [1..n ->
              {[l \in ScoreLabels |->
                   IF l = "not depression" THEN 85 ELSE IF l = "moderate" THEN 10 ELSE 5],
               [l \in ScoreLabels |->
                   IF l = "not depression" THEN 30 ELSE IF l = "moderate" THEN 60 ELSE 10],
               [l \in ScoreLabels |->
                   IF l = "not depression" THEN 10 ELSE IF l = "moderate" THEN 20 ELSE 70]}]
         /\ chunk_lengths \in [1..n -> {1, 3}]
    /\ depression_result = NoResult
    /\ IdleExcept("ChunkSpec")

\* lines 289-342 of one call
depression_chunked ==
    /\ depression_result = NoResult
    /\ depression_result' = analyze_depression_chunked(chunk_results, chunk_lengths)
    /\ UNCHANGED <<chunk_results, chunk_lengths>>
    /\ UNCHANGED <<pvars, tvars, svars, cvars, fvars, rvars, wvars, jvars, uvars>>

(***************************************************************************)
(* Two runs of analyze_video on one input (FuseSpec), lines 351-405: the   *)
(* results dict is filled in arrival order, then _get_llm_assessment and   *)
(* _generate_summary build the returned record.  The workers and the LLM   *)
(* are mocked: both runs get the same worker results and the same reply.   *)
(* Each run has its own arrival order and runs in an interpreter process   *)
(* with its own string hashing, hence its own iteration order of a set.    *)
(***************************************************************************)
\* _generate_summary, lines 534-554 (KeyError when llm_assessment lacks a key)
KeyError == [raised |-> "KeyError"]
generate_summary(video, audio, ta, assessment, order) ==
    IF ~(SummaryKeys \subseteq DOMAIN assessment) THEN KeyError
    ELSE [mental_health_score |-> assessment.overall_mental_health_score,
          risk_level |-> assessment.risk_level,
          confidence |-> assessment.confidence,
          video_emotion |-> DominantVideoEmotion(video.intervals, order),
          audio_emotion |-> audio.emotion,
          text_emotion |-> ta.emotion.dominant_emotion,
          depression_level |-> ta.depression.depression_level,
          total_intervals |-> Len(video.intervals)]

RECURSIVE Collect(_, _, _)
\* lines 351-354: results = {}; results[result_type] = data for the first n
\* messages read
Collect(messages, order, n) ==
    IF n = 0 THEN [t \in {} |-> 0]
    ELSE LET before == Collect(messages, order, n - 1)
             tag == order[n]
         IN [t \in DOMAIN before \cup {tag} |-> IF t = tag THEN messages[tag] ELSE before[t]]

FuseInit ==
    /\ fuse_pc = "collect"
    \* mocked worker results: video timelines without intervals, with a tie
    \* between two dominant emotions, and with a majority
    /\ worker_results \in
         [video : VideoResults
                    \cup {[intervals |-> <<"sad", "happy", "sad">>, summary |-> "sad"]},
          audio_text :
             {[audio_emotion |-> a,
               text_analysis |-> [emotion |-> analyze_emotion_local(emo),
                                  depression |-> analyze_depression_local(dep),
                                  llm_analysis |-> None, anonymized_text |-> None],
               text_for_multimodal |-> None] :
                  a \in AudioResults, emo \in EmotionOutputs, dep \in DepressionOutputs}]
    /\ llm_reply \in LlmOutcomes
    /\ arrival \in [Copies -> {<<"video", "audio_text">>, <<"audio_text", "video">>}]
    /\ hash_order \in [Copies -> SetOrders]
    /\ returned = [c \in Copies |-> NoResult]
    /\ journal_entry = [c \in Copies |-> NoResult]
    /\ IdleExcept("FuseSpec")

\* lines 351-405 of both runs
analyze_video_fuse ==
    /\ fuse_pc = "collect"
    /\ returned' = [c \in Copies |->
           LET res == Collect(worker_results, arrival[c], ResultsToCollect)
               \* lines 366-371
               video == res["video"]
               audio_text == res["audio_text"]
               \* lines 374-380
               assessment == AssessmentOf(llm_reply)
           IN [llm_final_assessment |-> assessment,
               \* lines 383-388
               summary |-> generate_summary(video, audio_text.audio_emotion,
                               audio_text.text_analysis, assessment, hash_order[c])]]
    /\ fuse_pc' = "returned"
    /\ UNCHANGED <<worker_results, llm_reply, arrival, hash_order, journal_entry>>
    /\ UNCHANGED <<pvars, tvars, svars, cvars, dvars, rvars, wvars, jvars, uvars>>

\* services/journal_service.py, lines 58-84: the video branch of
\* create_journal_entry on the summary of an analysis result
video_journal_entry(summary) ==
    [emotion_analysis |->
         [video_emotion |-> summary.video_emotion,
          audio_emotion |-> summary.audio_emotion,
          text_emotion |-> summary.text_emotion,
          dominant_emotion |-> summary.text_emotion],
     depression_analysis |->
         [depression_level |-> summary.depression_level,
          confidence |-> summary.confidence,
          severity |-> IF summary.depression_level = "moderate" THEN 5 ELSE 0]]

\* main.py, lines 671-683: the result of a completed analysis is saved as a
\* video journal (analyze_video raised when the summary could not be built)
create_journal_entry ==
    /\ fuse_pc = "returned"
    /\ \A c \in Copies : returned[c].summary # KeyError
    /\ journal_entry' = [c \in Copies |-> video_journal_entry(returned[c].summary)]
    /\ fuse_pc' = "saved"
    /\ UNCHANGED <<worker_results, llm_reply, arrival, hash_order, returned>>
    /\ UNCHANGED <<pvars, tvars, svars, cvars, dvars, rvars, wvars, jvars, uvars>>

(***************************************************************************)
(* The summary of the simplified pipeline (SummarySpec),                   *)
(* src/audio/depression_pipeline_audio.py.  Scores are kept in hundredths; *)
(* the average of the three risk factors is kept as their sum over their   *)
(* number.                                                                 *)
(***************************************************************************)

\* lines 242-246: severity_map
severity_map(label) ==
    CASE label = "not depression" -> 0
      [] label = "moderate" -> 5
      [] label = "severe" -> 9
      [] OTHER -> 0

\* lines 468-472: risk_factors
risk_factors(depression, emotion, audio) ==
    <<depression.severity,
      IF emotion.dominant_emotion \in {"sadness", "fear", "anger"} THEN 5 ELSE 0,
      IF audio.emotion \in {"sad", "angry"} THEN 5 ELSE 0>>

RECURSIVE SumFactors(_, _)
SumFactors(f, n) == IF n = 0 THEN 0 ELSE SumFactors(f, n - 1) + f[n]

\* the summary with the first threshold read as "at most 3"
VideoAnalysisPipeline_generate_summary_le(depression, emotion, audio) ==
    LET f == risk_factors(depression, emotion, audio)
        total == SumFactors(f, Len(f))
    IN [overall_risk_score |-> RoundHalfEven(100 * total, Len(f)),
        risk_level |-> IF total <= 3 * Len(f) THEN "Low"
                       ELSE IF total < 6 * Len(f) THEN "Moderate" ELSE "High",
        audio_emotion |-> audio.emotion,
        text_emotion |-> emotion.dominant_emotion,
        depression_level |-> depression.depression_level]

\* lines 463-483: overall_risk = sum(risk_factors) / len(risk_factors) is
\* total / Len(f); overall_risk < 3 is total < 3 * Len(f)
VideoAnalysisPipeline_generate_summary(depression, emotion, audio) ==
    LET f == risk_factors(depression, emotion, audio)
        total == SumFactors(f, Len(f))
    IN [overall_risk_score |-> RoundHalfEven(100 * total, Len(f)),
        risk_level |-> IF total < 3 * Len(f) THEN "Low"
                       ELSE IF total < 6 * Len(f) THEN "Moderate" ELSE "High",
        audio_emotion |-> audio.emotion,
        text_emotion |-> emotion.dominant_emotion,
        depression_level |-> depression.depression_level]

SummaryInit ==
    /\ risk_pc = "analysed"
    /\ risk_inputs \in
         [\* lines 237-251, analyze_depression_local: the labels of the classifier
          depression :
             {[depression_level |-> l, confidence |-> 90, severity |-> severity_map(l)] :
                  l \in {"not depression", "moderate", "severe"}},
          \* lines 225-235, analyze_emotion_local: the labels of the classifier
          emotion :
             {[dominant_emotion |-> e, confidence |-> 80] :
                  e \in {"anger", "disgust", "fear", "joy", "neutral", "sadness", "surprise"}},
          \* line 159: emotions = ['neutral', 'happy', 'sad', 'angry']
          audio_emotion :
             {[emotion |-> a, confidence |-> 70] : a \in {"neutral", "happy", "sad", "angry"}}]
    /\ risk_summary = NoResult
    /\ IdleExcept("SummarySpec")

\* lines 398-401: summary = self._generate_summary(...)
summarise ==
    /\ risk_pc = "analysed"
    /\ risk_summary' = VideoAnalysisPipeline_generate_summary(
                           risk_inputs.depression, risk_inputs.emotion,
                           risk_inputs.audio_emotion)
    /\ risk_pc' = "summarised"
    /\ UNCHANGED risk_inputs
    /\ UNCHANGED <<pvars, tvars, svars, cvars, dvars, fvars, wvars, jvars, uvars>>

(***************************************************************************)
(* chunk_text_by_sentences (WordsSpec), text_chunking_analyzer.py 46-116.  *)
(* A text is a sequence of characters, one for each class the function     *)
(* tells apart: "a" a letter, "." a sentence end ([.!?]), " " a blank and  *)
(* "\n" a newline.  The tokenizer is taken to yield one token for each     *)
(* character that is not white space.                                      *)
(***************************************************************************)
\* longest text
MaxTextLen == 7
\* largest token budget
MaxTokens == 2

\* len(tokenizer.encode(s, add_special_tokens=False))
TokenCount(s) == Cardinality({i \in DOMAIN s : s[i] \notin {" ", "\n"}})

\* re.split(r'(?<=[.!?])\s+|\n+', text): the pieces between the separators; a
\* separator is white space after a sentence end, else a run of newlines
SplitSentences(txt) ==
    LET MatchEnd(i) ==
            IF i > 1 /\ txt[i - 1] = "." /\ txt[i] \in {" ", "\n"}
            THEN RunEnd(txt, i, {" ", "\n"})
            ELSE IF txt[i] = "\n" THEN RunEnd(txt, i, {"\n"}) ELSE 0
        RECURSIVE Scan(_, _)
        Scan(i, start) ==
            IF i > Len(txt) THEN <<SubSeq(txt, start, Len(txt))>>
            ELSE IF MatchEnd(i) # 0
            THEN <<SubSeq(txt, start, i - 1)>> \o Scan(MatchEnd(i), MatchEnd(i))
            ELSE Scan(i + 1, start)
    IN Scan(1, 1)

\* s.split(): the maximal runs of characters that are not white space
Words(s) ==
    LET RECURSIVE From(_)
        From(i) ==
            IF i > Len(s) THEN <<>>
            ELSE IF s[i] \in {" ", "\n"} THEN From(i + 1)
            ELSE LET e == RunEnd(s, i, {"a", "."}) IN
                 <<SubSeq(s, i, e - 1)>> \o From(e)
    IN From(1)

\* ' '.join(parts)
RECURSIVE Join(_)
Join(parts) ==
    IF parts = <<>> THEN <<>>
    ELSE IF Len(parts) = 1 THEN parts[1]
    ELSE parts[1] \o <<" ">> \o Join(Tail(parts))

\* the word loop without its lines 97-98: the last word_chunk is not appended
WordChunksDropLast(words, budget) ==
    LET RECURSIVE Go(_, _, _)
        Go(i, word_chunk, word_tokens) ==
            IF i > Len(words) THEN <<>>
            ELSE LET word_token_count == TokenCount(words[i]) IN
                 IF word_tokens + word_token_count > budget
                 THEN (IF word_chunk # <<>> THEN <<Join(word_chunk)>> ELSE <<>>)
                      \o Go(i + 1, <<words[i]>>, word_token_count)
                 ELSE Go(i + 1, Append(word_chunk, words[i]), word_tokens + word_token_count)
    IN Go(1, <<>>, 0)

\* lines 81-98: a sentence over the budget is split by words
WordChunks(words, budget) ==
    LET RECURSIVE Go(_, _, _)
        Go(i, word_chunk, word_tokens) ==
            IF i > Len(words)
            THEN (IF word_chunk # <<>> THEN <<Join(word_chunk)>> ELSE <<>>)
            ELSE LET word_token_count == TokenCount(words[i]) IN
                 IF word_tokens + word_token_count > budget
                 THEN (IF word_chunk # <<>> THEN <<Join(word_chunk)>> ELSE <<>>)
                      \o Go(i + 1, <<words[i]>>, word_token_count)
                 ELSE Go(i + 1, Append(word_chunk, words[i]), word_tokens + word_token_count)
    IN Go(1, <<>>, 0)

\* lines 61-116
chunk_text_by_sentences(txt, budget) ==
    LET sentences == SplitSentences(txt)
        \* if current_chunk: chunks.append(' '.join(current_chunk))
        Flush(current_chunk) ==
            IF current_chunk # <<>> THEN <<Join(current_chunk)>> ELSE <<>>
        RECURSIVE Loop(_, _, _)
        Loop(i, current_chunk, current_tokens) ==
            IF i > Len(sentences) THEN Flush(current_chunk)
            ELSE LET sentence == sentences[i]
                     sentence_token_count == TokenCount(sentence)
                 IN IF sentence_token_count > budget
                    THEN Flush(current_chunk) \o WordChunks(Words(sentence), budget)
                         \o Loop(i + 1, <<>>, 0)
                    ELSE IF current_tokens + sentence_token_count > budget
                    THEN Flush(current_chunk) \o Loop(i + 1, <<sentence>>, sentence_token_count)
                    ELSE Loop(i + 1, Append(current_chunk, sentence),
                              current_tokens + sentence_token_count)
    IN Loop(1, <<>>, 0)

WordsInit ==
    /\ chunk_input \in UNION {[1..n -> {"a", ".", " ", "\n"}] : n \in 0..MaxTextLen}
    /\ max_tokens \in 1..MaxTokens
    /\ chunks = <<>>
    /\ chunk_pc = "called"
    /\ IdleExcept("WordsSpec")

\* one call
chunk_text ==
    /\ chunk_pc = "called"
    /\ chunk_pc' = "returned"
    /\ chunks' = chunk_text_by_sentences(chunk_input, max_tokens)
    /\ UNCHANGED <<chunk_input, max_tokens>>
    /\ UNCHANGED <<pvars, tvars, svars, cvars, dvars, fvars, rvars, jvars, uvars>>

(***************************************************************************)
(* The journal of one user (JournalSpec): the end of analyze_text_journal,  *)
(* main.py 1126-1166, and JournalService.create_journal_entry with          *)
(* update_daily_summary and update_user_streak, journal_service.py 30-255. *)
(* A request starts where its local classifiers and its LLM call have      *)
(* succeeded.  Dates are counted in days; a step is what runs between two  *)
(* awaits of the database.                                                 *)
(***************************************************************************)
\* last day
MaxDay == 4
\* most requests the user sends
MaxRequests == 3

\* the requests that may be in progress at the same time
Requests == {1, 2}

\* the locals of a request that is not in progress
NoRequest ==
    [pc |-> "idle", privacy_mode |-> "none", content |-> "none", entries |-> 0,
     entry_date |-> 0, streak_doc |-> <<>>, outcome |-> "none"]

\* lines 198-255 with the old lines 244-254: a broken streak is not reset
update_user_streak_no_reset(stored, streak_doc, entry_date) ==
    LET last_date == streak_doc.last_entry_date
        new_streak == streak_doc.current_streak + 1
        milestones == {7, 30, 60, 100, 180, 365}
    IN IF last_date = entry_date
       THEN [stored EXCEPT !.total_entries = @ + 1]
       ELSE IF last_date = entry_date - 1
       THEN [stored EXCEPT
                !.current_streak = new_streak,
                !.longest_streak = IF new_streak > streak_doc.longest_streak
                                   THEN new_streak ELSE streak_doc.longest_streak,
                !.last_entry_date = entry_date,
                !.milestones_achieved =
                    streak_doc.milestones_achieved
                        \cup {m \in milestones : new_streak >= m},
                !.total_entries = @ + 1]
       ELSE [stored EXCEPT
                !.last_entry_date = entry_date,
                !.streak_start_date = entry_date,
                !.total_entries = @ + 1]

\* lines 198-255: the document update_one leaves in place of stored when the
\* caller has read streak_doc; $set takes its values from streak_doc, $inc
\* counts on the stored document
update_user_streak(stored, streak_doc, entry_date) ==
    LET last_date == streak_doc.last_entry_date
        new_streak == streak_doc.current_streak + 1
        milestones == {7, 30, 60, 100, 180, 365}
    IN IF last_date = entry_date
       THEN [stored EXCEPT !.total_entries = @ + 1]
       ELSE IF last_date = entry_date - 1
       THEN [stored EXCEPT
                !.current_streak = new_streak,
                !.longest_streak = IF new_streak > streak_doc.longest_streak
                                   THEN new_streak ELSE streak_doc.longest_streak,
                !.last_entry_date = entry_date,
                !.milestones_achieved =
                    streak_doc.milestones_achieved
                        \cup {m \in milestones : new_streak >= m},
                !.total_entries = @ + 1]
       ELSE [stored EXCEPT
                !.current_streak = 1,
                !.last_entry_date = entry_date,
                !.streak_start_date = entry_date,
                !.total_entries = @ + 1]

JournalInit ==
    /\ today = 1
    /\ journals = <<>>
    /\ summaries = <<>>
    /\ streaks = <<>>
    /\ req = [c \in Requests |-> NoRequest]
    /\ requested = 0
    /\ streak_dates = <<>>
    /\ overlapped = FALSE
    /\ IdleExcept("JournalSpec")

\* midnight
next_day ==
    /\ today < MaxDay
    /\ today' = today + 1
    /\ UNCHANGED <<journals, summaries, streaks, req, requested, streak_dates,
                   overlapped>>
    /\ UNCHANGED <<pvars, tvars, svars, cvars, dvars, fvars, rvars, wvars, uvars>>

\* main.py 1126-1132: journal_data of a text journal
analyze_text_journal(c) ==
    /\ req[c].pc \in {"idle", "done"}
    \* the requests are interchangeable: request 2 is one that arrives while
    \* request 1 is in progress
    /\ c = 1 \/ req[1].pc \notin {"idle", "done"}
    /\ requested < MaxRequests
    /\ \E mode \in {"full_privacy", "anonymized"} :
           req' = [req EXCEPT ![c] =
                      [NoRequest EXCEPT
                          !.pc = "create",
                          !.privacy_mode = mode,
                          !.content = IF mode = "anonymized" THEN "text" ELSE "None"]]
    /\ requested' = requested + 1
    /\ overlapped' = (overlapped
                      \/ \E d \in Requests \ {c} : req[d].pc \notin {"idle", "done"})
    /\ UNCHANGED <<today, journals, summaries, streaks, streak_dates>>
    /\ UNCHANGED <<pvars, tvars, svars, cvars, dvars, fvars, rvars, wvars, uvars>>

\* journal_service.py 36-91, text branch: len(None) raises TypeError, which
\* main.py 1164-1168 answers with status 500; else the entry is inserted
journals_insert_one(c) ==
    /\ req[c].pc = "create"
    /\ IF req[c].content = "None"
       THEN /\ req' = [req EXCEPT ![c] = [NoRequest EXCEPT
                                             !.pc = "done",
                                             !.privacy_mode = req[c].privacy_mode,
                                             !.outcome = "500"]]
            /\ UNCHANGED journals
       ELSE /\ journals' = Append(journals,
                                  [date |-> today,
                                   privacy_mode |-> req[c].privacy_mode,
                                   content |-> req[c].content])
            /\ req' = [req EXCEPT ![c].pc = "summary"]
    /\ UNCHANGED <<today, summaries, streaks, requested, streak_dates, overlapped>>
    /\ UNCHANGED <<pvars, tvars, svars, cvars, dvars, fvars, rvars, wvars, uvars>>

\* lines 93 and 99-116: the entries of date.today() are read
update_daily_summary_find(c) ==
    /\ req[c].pc = "summary"
    /\ LET entries == Cardinality({i \in DOMAIN journals : journals[i].date = today})
       IN req' = [req EXCEPT ![c].pc = IF entries = 0 THEN "streak" ELSE "upsert",
                             ![c].entries = entries,
                             ![c].entry_date = today]
    /\ UNCHANGED <<today, journals, summaries, streaks, requested, streak_dates,
                   overlapped>>
    /\ UNCHANGED <<pvars, tvars, svars, cvars, dvars, fvars, rvars, wvars, uvars>>

\* lines 118-172: update_one(..., upsert=True) on the summary of the day
update_daily_summary_upsert(c) ==
    /\ req[c].pc = "upsert"
    /\ LET matching == {i \in DOMAIN summaries : summaries[i].date = req[c].entry_date}
           summary == [date |-> req[c].entry_date, total_entries |-> req[c].entries]
       IN summaries' =
              IF matching = {}
              THEN Append(summaries, summary)
              ELSE [summaries EXCEPT
                       ![CHOOSE i \in matching : \A k \in matching : i <= k] = summary]
    /\ req' = [req EXCEPT ![c].pc = "streak"]
    /\ UNCHANGED <<today, journals, streaks, requested, streak_dates, overlapped>>
    /\ UNCHANGED <<pvars, tvars, svars, cvars, dvars, fvars, rvars, wvars, uvars>>

\* lines 94 and 175-179: find_one on the streaks of the user
update_user_streak_find_one(c) ==
    /\ req[c].pc = "streak"
    /\ req' = [req EXCEPT
                  ![c].pc = "write",
                  ![c].entry_date = today,
                  ![c].streak_doc = IF streaks = <<>> THEN <<>> ELSE <<streaks[1]>>]
    /\ streak_dates' = Append(streak_dates, today)
    /\ UNCHANGED <<today, journals, summaries, streaks, requested, overlapped>>
    /\ UNCHANGED <<pvars, tvars, svars, cvars, dvars, fvars, rvars, wvars, uvars>>

\* lines 184-255: insert_one when no document was read, else update_one on
\* the first document of the user; then main.py 1141-1162 returns success
update_user_streak_write(c) ==
    /\ req[c].pc = "write"
    /\ streaks' =
           IF req[c].streak_doc = <<>>
           THEN Append(streaks,
                       [current_streak |-> 1,
                        longest_streak |-> 1,
                        total_entries |-> 1,
                        last_entry_date |-> req[c].entry_date,
                        streak_start_date |-> req[c].entry_date,
                        milestones_achieved |-> {}])
           ELSE [streaks EXCEPT
                    ![1] = update_user_streak(@, req[c].streak_doc[1],
                                              req[c].entry_date)]
    /\ req' = [req EXCEPT ![c] = [NoRequest EXCEPT
                                      !.pc = "done",
                                      !.privacy_mode = req[c].privacy_mode,
                                      !.outcome = "success"]]
    /\ UNCHANGED <<today, journals, summaries, requested, streak_dates, overlapped>>
    /\ UNCHANGED <<pvars, tvars, svars, cvars, dvars, fvars, rvars, wvars, uvars>>

JournalSpec ==
    JournalInit
    /\ [][\/ next_day
          \/ \E c \in Requests :
                 \/ analyze_text_journal(c)
                 \/ journals_insert_one(c)
                 \/ update_daily_summary_find(c)
                 \/ update_daily_summary_upsert(c)
                 \/ update_user_streak_find_one(c)
                 \/ update_user_streak_write(c)]_vars

(***************************************************************************)
(* The status files of upload tasks (StatusSpec): upload_video, main.py    *)
(* 637-666, MultimodalAnalysisService.analyze_video, main.py 231-300, and  *)
(* the status endpoint, main.py 398-410 and 712-730.  A task starts where  *)
(* its video has been written and verified.  A status record is the        *)
(* dictionary save_status has dumped, a function of its keys; the file is  *)
(* read by any server process, so every save is a step of its own.         *)
(***************************************************************************)
StatusInit ==
    /\ task_pc = [t \in Runs |-> "idle"]
    /\ status_file = [t \in Runs |-> <<>>]
    /\ status_response = [t \in Runs |-> "none"]
    /\ IdleExcept("StatusSpec")

\* main.py 637-644: the initial status
upload_video(t) ==
    /\ task_pc[t] = "idle"
    /\ status_file' = [status_file EXCEPT ![t] =
           [task_id |-> t, status |-> "processing", progress |-> 0,
            stage |-> "starting", message |-> "Video uploaded. Starting analysis...",
            last_updated |-> "utcnow"]]
    /\ task_pc' = [task_pc EXCEPT ![t] = "load"]
    /\ UNCHANGED status_response
    /\ UNCHANGED <<pvars, tvars, svars, cvars, dvars, fvars, rvars, wvars, jvars>>

\* main.py 232-256 and 268-284: the saves of analyze_video when nothing is
\* raised, one after the other
analyze_video_save_status(t) ==
    /\ task_pc[t] \in {"load", "video_analysis", "audio_analysis",
                       "llm_assessment", "completed"}
    /\ LET data ==
               CASE task_pc[t] = "load" ->
                        [status |-> "processing", progress |-> 10,
                         stage |-> "initialization",
                         message |-> "Starting multimodal analysis",
                         next |-> "video_analysis"]
                 [] task_pc[t] = "video_analysis" ->
                        [status |-> "processing", progress |-> 30,
                         stage |-> "video_analysis",
                         message |-> "Analyzing video emotions",
                         next |-> "audio_analysis"]
                 [] task_pc[t] = "audio_analysis" ->
                        [status |-> "processing", progress |-> 50,
                         stage |-> "audio_analysis",
                         message |-> "Processing audio and transcription",
                         next |-> "executor"]
                 [] task_pc[t] = "llm_assessment" ->
                        [status |-> "processing", progress |-> 80,
                         stage |-> "llm_assessment",
                         message |-> "Generating final assessment",
                         next |-> "completed"]
                 [] task_pc[t] = "completed" ->
                        [status |-> "completed", progress |-> 100,
                         stage |-> "completed",
                         message |-> "Multimodal analysis completed",
                         next |-> "analysed"]
       IN /\ status_file' = [status_file EXCEPT ![t] =
                 [task_id |-> t, status |-> data.status, progress |-> data.progress,
                  stage |-> data.stage, message |-> data.message,
                  last_updated |-> "utcnow"]]
          /\ task_pc' = [task_pc EXCEPT ![t] = data.next]
    /\ UNCHANGED status_response
    /\ UNCHANGED <<pvars, tvars, svars, cvars, dvars, fvars, rvars, wvars, jvars>>

\* main.py 258-266: _run_analysis_sync returns a result
run_in_executor(t) ==
    /\ task_pc[t] = "executor"
    /\ task_pc' = [task_pc EXCEPT ![t] = "llm_assessment"]
    /\ UNCHANGED <<status_file, status_response>>
    /\ UNCHANGED <<pvars, tvars, svars, cvars, dvars, fvars, rvars, wvars, jvars>>

\* main.py 232 and 258-266: _load_pipeline or _run_analysis_sync raises
analyze_video_raise(t) ==
    /\ task_pc[t] \in {"load", "executor"}
    /\ task_pc' = [task_pc EXCEPT ![t] = "except"]
    /\ UNCHANGED <<status_file, status_response>>
    /\ UNCHANGED <<pvars, tvars, svars, cvars, dvars, fvars, rvars, wvars, jvars>>

\* main.py 288-300: the handler of analyze_video saves 'failed' and raises again
analyze_video_except(t) ==
    /\ task_pc[t] = "except"
    /\ status_file' = [status_file EXCEPT ![t] =
           [task_id |-> t, status |-> "failed", progress |-> 0,
            stage |-> "error", message |-> "Analysis failed",
            last_updated |-> "utcnow"]]
    /\ task_pc' = [task_pc EXCEPT ![t] = "raised"]
    /\ UNCHANGED status_response
    /\ UNCHANGED <<pvars, tvars, svars, cvars, dvars, fvars, rvars, wvars, jvars>>

\* main.py 661-666: the handler of upload_video saves {'message': ...} and
\* answers with status 500
upload_video_except(t) ==
    /\ task_pc[t] = "raised"
    /\ status_file' = [status_file EXCEPT ![t] =
           [message |-> "Analysis failed", last_updated |-> "utcnow"]]
    /\ task_pc' = [task_pc EXCEPT ![t] = "http500"]
    /\ UNCHANGED status_response
    /\ UNCHANGED <<pvars, tvars, svars, cvars, dvars, fvars, rvars, wvars, jvars>>

\* main.py 668-709: the result is saved and returned; the status file is left
upload_video_return(t) ==
    /\ task_pc[t] = "analysed"
    /\ task_pc' = [task_pc EXCEPT ![t] = "done"]
    /\ UNCHANGED <<status_file, status_response>>
    /\ UNCHANGED <<pvars, tvars, svars, cvars, dvars, fvars, rvars, wvars, jvars>>

\* main.py 712-730 with get_task_status, 398-410: StatusResponse(**status)
\* needs task_id, status, progress and message, else the answer is 404
get_analysis_status(t) ==
    /\ status_response' = [status_response EXCEPT ![t] =
           IF DOMAIN status_file[t] = {} THEN "not_found"
           ELSE IF {"task_id", "status", "progress", "message"}
                       \subseteq DOMAIN status_file[t]
           THEN status_file[t].status
           ELSE "404"]
    /\ UNCHANGED <<task_pc, status_file>>
    /\ UNCHANGED <<pvars, tvars, svars, cvars, dvars, fvars, rvars, wvars, jvars>>

StatusSpec ==
    StatusInit
    /\ [][\E t \in Runs :
              \/ upload_video(t)
              \/ analyze_video_save_status(t)
              \/ run_in_executor(t)
              \/ analyze_video_raise(t)
              \/ analyze_video_except(t)
              \/ upload_video_except(t)
              \/ upload_video_return(t)
              \/ get_analysis_status(t)]_vars

Spec == PInit /\ [][PNext]_vars

TextSpec == TInit /\ [][TNext]_vars

ScanSpec == ScanInit /\ [][cap_read \/ cap_read_end]_vars

ScoreSpec == ScoreInit /\ [][calculate_scores]_vars

ChunkSpec == ChunkInit /\ [][depression_chunked]_vars

FuseSpec == FuseInit /\ [][analyze_video_fuse \/ create_journal_entry]_vars

SummarySpec == SummaryInit /\ [][summarise]_vars

WordsSpec == WordsInit /\ [][chunk_text]_vars

(***************************************************************************)
(* Properties of the orchestration (checked under Spec).                   *)
(***************************************************************************)
\* number of messages with tag t the workers of run r have put so far
Reported(r, t) ==
    Cardinality({i \in DOMAIN result_queue[r] : result_queue[r][i][1] = t})
    + Cardinality({i \in DOMAIN gets[r] : gets[r][i] = t})

\* C1: whenever a worker reported a failure, the completed run raised the
\* fatal error that names a failed side, the final LLM assessment was never
\* invoked and nothing was returned; a result is returned only when both
\* workers succeeded.
C1_FailureIsFatalAndTagged ==
    \A r \in Runs :
        /\ (\E t \in Tags : results[r][t] = "error") => llmCalls[r] = 0
        /\ outcome[r] = "result" =>
               results[r]["video"] = "ok" /\ results[r]["audio_text"] = "ok"
        /\ ((outcome[r] # "none") /\ (\E t \in Tags : results[r][t] = "error")) =>
               \/ outcome[r] = "Video processing failed" /\ results[r]["video"] = "error"
               \/ outcome[r] = "Audio/text processing failed"
                    /\ results[r]["audio_text"] = "error"

\* C2: once both worker processes of a run have terminated, each of them has
\* put exactly one tagged message on the result queue (so that the two
\* blocking reads of the orchestrator complete).
C2_TerminatedWorkersReported ==
    \A r \in Runs :
        Terminated(r) => Reported(r, "video") = 1 /\ Reported(r, "audio_text") = 1

\* C3: the orchestrator is past its collection loop (and so can start
\* evidence assembly) only after exactly two reads, one of a "video" and one
\* of an "audio_text" message, in either order; it never reads a third.
C3_ExactlyTwoTaggedResults ==
    \A r \in Runs :
        /\ Len(gets[r]) <= 2
        /\ (opc[r] \notin {"idle", "collect"} \/ llmCalls[r] > 0) =>
               /\ Len(gets[r]) = 2
               /\ {gets[r][i] : i \in DOMAIN gets[r]} = Tags
               /\ \A t \in Tags : results[r][t] # "absent"

\* the audio/text worker reported first and the orchestrator went on to
\* evidence assembly
C3_Witness ==
    \E r \in Runs : opc[r] = "assess" /\ gets[r] = <<"audio_text", "video">>

\* C4: once a run with cleanup enabled has returned or raised, no file
\* holding that run's extracted audio exists, and when no other run shares
\* its path nothing exists at its temporary path at all.
C4_TempAudioRemoved ==
    \A r \in Runs :
        ((outcome[r] # "none") /\ cleanup[r]) =>
            /\ \A p \in Paths : files[p] # r
            /\ (\A q \in Runs \ {r} : pidOf[q] # pidOf[r]) => files[temp_audio[r]] = 0

\* a run whose audio/text worker failed after the extraction wrote the file
C4_Witness ==
    \E r \in Runs :
        /\ outcome[r] = "Audio/text processing failed"
        /\ cleanup[r] /\ extracted[r]
        /\ files[temp_audio[r]] = 0

\* C5: two runs in progress at the same time use different temporary paths.
C5_DistinctTempPaths ==
    \A r1, r2 \in Runs :
        (r1 # r2 /\ opc[r1] \notin {"idle", "done"} /\ opc[r2] \notin {"idle", "done"})
            => temp_audio[r1] # temp_audio[r2]

(***************************************************************************)
(* Properties of the data path (checked under TextSpec).                   *)
(***************************************************************************)

\* sub occurs in s as a contiguous substring
Contains(s, sub) ==
    \E i \in 1..(Len(s) - Len(sub) + 1) : SubSeq(s, i, i + Len(sub) - 1) = sub

\* C6: with FULL_PRIVACY, whatever the text (the empty string included) and
\* the classifier outputs, analyze returns outbound text None and a record
\* whose llm_analysis and anonymized_text are None.
C6_FullPrivacyReturnsNoText ==
    ((tpc \in {"analyzed", "assessed"}) /\ privacy_mode = "full_privacy") =>
        \A c \in Copies :
            /\ text_for_multimodal[c] = None
            /\ text_analysis[c].llm_analysis = None
            /\ text_analysis[c].anonymized_text = None

\* analyze has returned for the empty string and for a phone number
C6_Witness ==
    /\ tpc = "analyzed" /\ privacy_mode = "full_privacy"
    /\ text[1] = <<>> /\ text[2] = PhoneDashed
    /\ text_analysis[1].depression.severity = 9
    /\ text_for_multimodal[2] = None

\* C7: analyze_detailed_llm is never called in a FULL_PRIVACY run; in an
\* ANONYMIZED run whose analysis succeeded it was called exactly once, with
\* the output of remove_pii, and its result is in the record.
C7_DetailedLlmOnlyOnAnonymizedText ==
    /\ privacy_mode = "full_privacy" => \A c \in Copies : detailed_calls[c] = <<>>
    /\ ((tpc \in {"analyzed", "assessed"}) /\ privacy_mode = "anonymized") =>
           \A c \in Copies :
               /\ detailed_calls[c] = <<remove_pii(text[c], ents[c])>>
               /\ text_analysis[c].anonymized_text = detailed_calls[c][1]
               /\ text_analysis[c].llm_analysis \in DetailedReplies

\* an ANONYMIZED run in which remove_pii changed the transcript
C7_Witness ==
    /\ tpc = "analyzed" /\ privacy_mode = "anonymized"
    /\ Len(detailed_calls[1]) = 1
    /\ detailed_calls[1][1] # text[1]
    /\ detailed_calls[2] = <<PHONE>>

\* C8: two FULL_PRIVACY runs that differ in their transcripts only send the
\* same prompt to the final LLM; a prompt has a transcript section only when
\* the mode is ANONYMIZED (and then it is the anonymized text).
C8_PromptIndependentOfTranscript ==
    tpc = "assessed" =>
        /\ privacy_mode = "full_privacy" => prompt[1] = prompt[2]
        /\ \A c \in Copies :
               "transcript" \in DOMAIN prompt[c].text_info =>
                   /\ privacy_mode = "anonymized"
                   /\ prompt[c].text_info.transcript = remove_pii(text[c], ents[c])

\* two FULL_PRIVACY runs with different transcripts have built their prompts
C8_Witness ==
    /\ tpc = "assessed" /\ privacy_mode = "full_privacy"
    /\ text[1] = <<"a", "a">> /\ text[2] = PhoneDashed
    /\ prompt[1].total_intervals = 2
    /\ prompt[1] = prompt[2]

\* C9: no substring of the input that has the shape of a phone number
\* (\d{3}[-.]?\d{3}[-.]?\d{4}) or of an e-mail address occurs in the output
\* of remove_pii, whatever surrounds it.
C9_NoPiiShapedSubstringSurvives ==
    ((tpc \in {"analyzed", "assessed"}) /\ privacy_mode = "anonymized") =>
        \A c \in Copies : \A i \in 1..Len(text[c]) :
            /\ PhoneShapeEnd(text[c], i) # 0 =>
                   ~Contains(text_analysis[c].anonymized_text,
                             SubSeq(text[c], i, PhoneShapeEnd(text[c], i) - 1))
            /\ \A m \in i..(Len(text[c]) + 1) :
                   EmailShaped(text[c], i, m) =>
                       ~Contains(text_analysis[c].anonymized_text,
                                 SubSeq(text[c], i, m - 1))

\* C10: when the final LLM call raises, _get_llm_assessment returns (no
\* exception leaves it) the fallback record: score 50, risk "moderate",
\* confidence 0.5, key indicators ["LLM unavailable"], whatever the inputs.
C10_FallbackWhenLlmRaises ==
    llm_outcome = "raises" =>
        /\ tpc = "assessed"
        /\ \A c \in Copies :
               /\ llm_assessment[c].overall_mental_health_score = 50
               /\ llm_assessment[c].risk_level = "moderate"
               /\ llm_assessment[c].confidence = 50
               /\ llm_assessment[c].key_indicators = <<"LLM unavailable">>
               /\ DOMAIN llm_assessment[c] = DOMAIN FullReply

\* the call raised for a run with video intervals and an anonymized transcript
C10_Witness ==
    /\ tpc = "assessed" /\ llm_outcome = "raises"
    /\ prompt[1].total_intervals = 2
    /\ privacy_mode = "anonymized"
    /\ llm_assessment[1].key_indicators = <<"LLM unavailable">>

\* C11: when the final LLM reply is not valid JSON, or is valid JSON that
\* lacks one of the expected keys, the assessment returned is the fallback
\* record and _generate_summary builds the summary from it (no KeyError, no
\* partially populated assessment).
C11_MalformedReplyYieldsFallback ==
    (tpc = "assessed"
     /\ llm_outcome \in {"not_json", "missing_summary_key", "missing_other_key"}) =>
        \A c \in Copies :
            /\ llm_assessment[c] = Fallback
            /\ SummaryOf(llm_assessment[c]) = "result"

(***************************************************************************)
(* Properties of the workers of a run (checked under Spec).                *)
(***************************************************************************)
\* C12: a precondition failure of a run (ffmpeg missing, DEEPGRAM_API_KEY
\* missing, video that cannot be opened) is raised before any expensive work
\* of the run has started: no model loaded, no audio extracted.
C12_PreconditionFailsBeforeWork ==
    \A r \in Runs : \A f \in precondition[r] : f.started = {}

\* lines 280-300: the stages of the audio/text worker, in program order
AudioStages == <<"extract", "transcribe", "audio_emotion", "text">>

\* C20: the audio/text worker goes through extract, transcribe, classify
\* audio, analyze text in this order, one stage starting only when the
\* previous one has returned; a stage that fails ends the worker with one
\* error message and no later stage runs; the worker never reports twice.
C20_StagesInStrictOrder ==
    [][\A r \in Runs :
          /\ Reported(r, "audio_text")' <= 1
          /\ apc'[r] # apc[r] =>
               \/ apc[r] = "notstarted" /\ apc'[r] = "setup"
               \/ apc[r] = "setup" /\ apc'[r] \in {AudioStages[1], "crashed"}
               \/ \E i \in DOMAIN AudioStages :
                    /\ apc[r] = AudioStages[i]
                    /\ \/ /\ i < Len(AudioStages)
                          /\ apc'[r] = AudioStages[i + 1]
                          /\ result_queue'[r] = result_queue[r]
                       \/ /\ apc'[r] = "done"
                          /\ \E d \in IF i = Len(AudioStages) THEN {"ok", "error"}
                                      ELSE {"error"} :
                               result_queue'[r] =
                                   Append(result_queue[r], <<"audio_text", d>>)]_vars

\* the transcription stage failed after the extraction had written the audio:
\* the worker ended there with its one error message
C20_Witness ==
    \E r \in Runs :
        /\ apc[r] = "done" /\ extracted[r]
        /\ \E f \in precondition[r] : f.what = "DEEPGRAM_API_KEY"
        /\ result_queue[r] = <<<<"audio_text", "error">>>>

(***************************************************************************)
(* Properties of the video scan (checked under ScanSpec and ScoreSpec).    *)
(***************************************************************************)
\* C13: when the decoder delivers no frame although fewer than total_frames
\* frames were read, the scan does not return a timeline as a success: a
\* scan that has returned has read every frame of the video.
C13_DecodeFailureAborts ==
    scan_pc = "returned" => frame_count >= total_frames

\* C14: an emitted record of an interval without a face detection has all
\* emotion scores 0.0, dominant emotion "none", frames_with_face 0 and
\* detections_count 0; a record of an interval with detections has
\* detections_count equal to frames_with_face.
C14_ZeroDetectionRecords ==
    \A k \in Skips : \A i \in DOMAIN intervals_data[k] :
        LET rec == intervals_data[k][i] IN
        /\ faces[k][i] = 0 =>
               /\ \A e \in Labels : rec.emotion_scores[e] = 0
               /\ rec.dominant_emotion = "none"
               /\ rec.frames_with_face = 0
               /\ rec.detections_count = 0
        /\ faces[k][i] >= 1 =>
               /\ rec.detections_count = faces[k][i]
               /\ rec.detections_count = rec.frames_with_face

\* a returned timeline with an interval without a face followed by an
\* interval with two detections
C14_Witness ==
    /\ scan_pc = "returned"
    /\ \E k \in Skips :
         /\ Len(intervals_data[k]) >= 2
         /\ intervals_data[k][1].dominant_emotion = "none"
         /\ intervals_data[k][1].frames_sampled >= 1
         /\ intervals_data[k][2].detections_count = 2

\* C15: the face_detection_rate of a record (rounded to three decimals) is
\* in [0, 1] and is 0 exactly when the interval has no frame with a face.
C15_FaceDetectionRate ==
    interval_scores # NoScores =>
        /\ interval_scores.face_detection_rate \in 0..1000
        /\ interval_scores.face_detection_rate = 0 <=> interval_data.frames_with_face = 0

RECURSIVE SampledUpTo(_, _)
\* frames_sampled summed over the first n emitted records
SampledUpTo(records, n) ==
    IF n = 0 THEN 0 ELSE records[n].frames_sampled + SampledUpTo(records, n - 1)

\* C16: for a video of N frames (all decoded) and every frame_skip k, the
\* frames sampled, summed over the emitted records, are ceil(N / k) up to
\* one, and for the same video they do not increase with k.
C16_SampledIsCeilAndMonotone ==
    (scan_pc = "returned" /\ frame_count = total_frames) =>
        /\ \A k \in Skips :
               LET sampled == SampledUpTo(intervals_data[k], Len(intervals_data[k]))
                   ceil == (frame_count + k - 1) \div k
               IN /\ sampled <= ceil + 1
                  /\ sampled >= ceil - 1
        /\ \A k1, k2 \in Skips :
               k1 < k2 =>
                   SampledUpTo(intervals_data[k1], Len(intervals_data[k1]))
                       >= SampledUpTo(intervals_data[k2], Len(intervals_data[k2]))

\* C24: for an interval with at least one detection and every label L, the
\* reported score of L is (mean probability of L over the detections) x
\* (frames_with_face / max(frames_sampled, 1)) x 100, to two decimals, and
\* the dominant emotion is a label of maximal score; a face in every sampled
\* frame with probability 0.9 for happy gives score 90 and dominant happy.
C24_EmotionScoreFormula ==
    (interval_scores # NoScores /\ interval_data.detections # <<>>) =>
        LET d == interval_data.detections
            n == Len(d)
            sampled == IF interval_data.frames_sampled >= 1
                       THEN interval_data.frames_sampled ELSE 1
        IN /\ \A L \in Labels :
                  \* probabilities are in percent, scores in hundredths:
                  \* |score - mean * rate * 100| <= 0.005
                  LET exact == 100 * SumProb(d, L, n) * interval_data.frames_with_face
                      diff == n * sampled * interval_scores.emotion_scores[L] - exact
                  IN 2 * diff <= n * sampled /\ 2 * diff >= -(n * sampled)
           /\ \A L \in Labels :
                  interval_scores.emotion_scores[L]
                      <= interval_scores.emotion_scores[interval_scores.dominant_emotion]
           /\ (/\ interval_data.frames_sampled = n
               /\ \A i \in 1..n : d[i]["happy"] = 90) =>
                  /\ interval_scores.emotion_scores["happy"] = 9000
                  /\ interval_scores.dominant_emotion = "happy"

\* a record for two sampled frames, both with a face that is happy with
\* probability 0.9
C24_Witness ==
    /\ interval_scores # NoScores
    /\ interval_data.frames_sampled = 2
    /\ Len(interval_data.detections) = 2
    /\ \A i \in 1..2 : interval_data.detections[i]["happy"] = 90
    /\ interval_scores.emotion_scores["happy"] = 9000
    /\ interval_scores.dominant_emotion = "happy"

RECURSIVE ProcessedUpTo(_, _)
\* frames_processed summed over the first n emitted records
ProcessedUpTo(records, n) ==
    IF n = 0 THEN 0 ELSE records[n].frames_processed + ProcessedUpTo(records, n - 1)

\* C22: for a video of N frames (all decoded, N as the container reports it),
\* every frames_per_interval and every frame_skip k, the frames_processed of
\* the emitted records sum to N and no face detection is left in an interval
\* that was not emitted.
C22_EveryFrameInOneRecord ==
    (scan_pc = "returned" /\ decodable = total_frames) =>
        \A k \in Skips :
            /\ ProcessedUpTo(intervals_data[k], Len(intervals_data[k])) = total_frames
            /\ faces[k][Len(faces[k])] = 0

\* C23: every emitted record but the last has frames_processed equal to
\* frames_per_interval, for every frame_skip k; the records carry the
\* interval numbers 1..n, start_time (i-1)*interval_seconds and end_time
\* i*interval_seconds.
C23_RecordsCoverIntervalSeconds ==
    decodable = total_frames =>
        \A k \in Skips : \A i \in DOMAIN intervals_data[k] :
            LET rec == intervals_data[k][i] IN
            /\ rec.interval_number = i
            /\ rec.start_time = (i - 1) * interval_seconds
            /\ rec.end_time = i * interval_seconds
            /\ i < Len(intervals_data[k]) => rec.frames_processed = frames_per_interval

(***************************************************************************)
(* Properties of the chunked text analysis (checked under ChunkSpec).      *)
(***************************************************************************)

\* C17: for every non-empty sequence of chunk distributions (also when every
\* chunk is dominantly "not depression") analyze_depression_chunked returns
\* a record whose severity is the largest mapped severity of a chunk's
\* dominant label, whose depression_level is the label of that severity and
\* whose all_scores is the length-weighted average.
C17_WorstCaseSeverity ==
    depression_result # NoResult =>
        /\ depression_result # TypeError
        /\ depression_result.severity =
               SetMax({SeverityMap(DominantOf(chunk_results[i])) : i \in DOMAIN chunk_results})
        /\ SeverityMap(depression_result.depression_level) = depression_result.severity
        /\ \A label \in ScoreLabels :
               depression_result.all_scores[label] =
                   <<WeightedSum(chunk_results, chunk_lengths, label, Len(chunk_results)),
                     SumLengths(chunk_lengths, Len(chunk_lengths))>>

(***************************************************************************)
(* Properties of the fused run (checked under FuseSpec).                   *)
(***************************************************************************)
\* C18: two runs of analyze_video on the same input, with the same (mocked)
\* worker results and LLM reply, return the same final assessment and the
\* same summary, also when dominant emotions tie among the video intervals
\* and whichever worker reports first.
C18_FusedRunDeterministic ==
    fuse_pc \in {"returned", "saved"} =>
        /\ returned[1].llm_final_assessment = returned[2].llm_final_assessment
        /\ returned[1].summary = returned[2].summary

(***************************************************************************)
(* Properties of the simplified summary (checked under SummarySpec).       *)
(***************************************************************************)
\* the sum of the three signals, from the inputs
SignalSum ==
    risk_inputs.depression.severity
    + (IF risk_inputs.emotion.dominant_emotion \in {"sadness", "fear", "anger"} THEN 5 ELSE 0)
    + (IF risk_inputs.audio_emotion.emotion \in {"sad", "angry"} THEN 5 ELSE 0)

\* C19: for every severity in {0, 5, 9}, every dominant text emotion and every
\* audio emotion, the risk score of the simplified summary is the sum of the
\* three signals divided by 3 (reported to two decimal places), and the risk
\* level is Low if the score is below 3, Moderate if it is at least 3 and
\* below 6, and High otherwise.
C19_SimplifiedRisk ==
    risk_pc = "summarised" =>
        LET h == risk_summary.overall_risk_score
            d == 3 * h - 100 * SignalSum
        IN /\ risk_inputs.depression.severity \in {0, 5, 9}
           /\ 2 * d <= 3 /\ 2 * d >= -3
           /\ risk_summary.risk_level =
                 (IF SignalSum < 3 * 3 THEN "Low"
                  ELSE IF SignalSum < 6 * 3 THEN "Moderate" ELSE "High")

\* a summary whose average is exactly 3 (severity 9, no other signal)
C19_Witness ==
    /\ risk_pc = "summarised"
    /\ SignalSum = 9
    /\ risk_summary.risk_level = "Moderate"

(***************************************************************************)
(* Failure absorption (checked under Spec).                                *)
(***************************************************************************)
\* C21: when the transcription request or the secondary LLM analysis of a
\* run failed, the audio/text worker reported a failure (never a result),
\* the final scorer was not called, and the completed run raised the
\* audio/text failure (the video failure when the video worker failed too).
C21_RequestFailureAbortsRun ==
    \A r \in Runs :
        raised[r] = "request" =>
            /\ \/ \E i \in DOMAIN result_queue[r] :
                      result_queue[r][i] = <<"audio_text", "error">>
               \/ results[r]["audio_text"] = "error"
            /\ llmCalls[r] = 0
            /\ outcome[r] # "none" =>
                   \/ outcome[r] = "Audio/text processing failed"
                   \/ /\ results[r]["video"] = "error"
                      /\ outcome[r] = "Video processing failed"

(***************************************************************************)
(* Properties of the records persisted for a run (checked under FuseSpec). *)
(***************************************************************************)
\* C25: wherever a depression severity is recorded next to a depression
\* level it is the fixed map of the level (not depression 0, moderate 5,
\* severe 9, any other label 0): in the record of the text pipeline and in
\* the depression_analysis of a persisted video journal entry.
C25_SeverityIsFixedMap ==
    LET FixedMap(level) == IF level = "moderate" THEN 5
                           ELSE IF level = "severe" THEN 9 ELSE 0
        text_record == worker_results.audio_text.text_analysis.depression
    IN /\ fuse_pc # "off" => text_record.severity = FixedMap(text_record.depression_level)
       /\ fuse_pc = "saved" =>
              \A c \in Copies :
                  journal_entry[c].depression_analysis.severity
                      = FixedMap(journal_entry[c].depression_analysis.depression_level)

(***************************************************************************)
(* Properties of chunk_text_by_sentences (checked under WordsSpec).        *)
(***************************************************************************)
\* C26: for every text and token budget, the words of the returned chunks,
\* taken in chunk order, are the words of the text in their order: nothing
\* is lost, duplicated or reordered.
C26_ChunksKeepTheWords ==
    chunk_pc = "returned" =>
        LET RECURSIVE WordsOf(_)
            WordsOf(n) == IF n = 0 THEN <<>> ELSE WordsOf(n - 1) \o Words(chunks[n])
        IN WordsOf(Len(chunks)) = Words(chunk_input)

\* a sentence over the budget, split word by word, between two sentences
\* that fit
C26_Witness ==
    /\ chunk_pc = "returned"
    /\ chunk_input = <<"a", "\n", "a", " ", "a", "\n", "a">>
    /\ max_tokens = 1
    /\ chunks = << <<"a">>, <<"a">>, <<"a">>, <<"a">> >>

C28_OneStreakDocumentCountsAll ==
    (journals # <<>> /\ \A c \in Requests : req[c].pc \in {"idle", "done"}) =>
        /\ Len(streaks) = 1
        /\ streaks[1].total_entries = Len(journals)

\* C29: a text journal submitted with full_privacy is answered with success
\* once its request is done.
C29_FullPrivacyEntryIsSaved ==
    \A c \in Requests :
        (req[c].pc = "done" /\ req[c].privacy_mode = "full_privacy") =>
            req[c].outcome = "success"

(***************************************************************************)
(* Properties of the status files (checked under StatusSpec).              *)
(***************************************************************************)
\* C30: every stored status record carries task_id, status, progress and
\* message; once upload_video has answered for an analysis that failed, the
\* stored record has status 'failed'.
C30_StatusRecordIsComplete ==
    \A t \in Runs :
        /\ DOMAIN status_file[t] # {} =>
               {"task_id", "status", "progress", "message"}
                   \subseteq DOMAIN status_file[t]
        /\ task_pc[t] = "http500" =>
               /\ "status" \in DOMAIN status_file[t]
               /\ status_file[t].status = "failed"

====
